---- MODULE Spec2Model ----
(***************************************************************************)
(* aws-bootstrap-g4dn: the CLI commands launch, terminate, cleanup and     *)
(* quota request as state machines over the AWS account (key pairs,        *)
(* security groups, instances, volumes, quota requests) and the local SSH  *)
(* config.  One CLI invocation runs at a time; each action is one step of  *)
(* a command (one call made by the command's body).                        *)
(***************************************************************************)
EXTENDS Integers, Sequences, FiniteSets, TLC

\* ---------------------------------------------------------------- bounds
MaxRuns == 2        \* CLI invocations in one behaviour
MaxInst == 2        \* instances run_instances can create (ids 1..MaxInst)
MaxVol  == 1        \* volumes create_volume can create (ids 1..MaxVol)
MaxRetries == 3     \* largest non-default retries given to wait_for_ssh

\* ------------------------------------------------------------- universe
NoInst      == 0    \* "no instance" (None / missing tag)
NoVol       == 0    \* "no volume" (None)
ForeignInst == MaxInst + 1  \* an instance of the account that the tool did not create
UserVol     == MaxVol + 1   \* a volume of the account that the tool did not create
GhostVol    == MaxVol + 2   \* a volume id that does not exist in the account
NoSize      == -1   \* --ebs-storage not given (None)

ToolInsts == 1..MaxInst
InstIds   == ToolInsts \cup {ForeignInst}
ToolVols  == 1..MaxVol
VolIds    == ToolVols \cup {UserVol}
AZs       == {"us-west-2a", "us-west-2b"}
Regions   == {"us-west-2", "us-east-1"}
Formats   == {"text", "json", "yaml", "table"}
KeyName   == "aws-bootstrap-key"
GroupName == "aws-bootstrap-ssh"
DefaultPort == 22
DefaultRetries == 30
DefaultDelay == 10

\* instance states that find_tagged_instances asks for
LiveStates == {"pending", "running", "stopping", "stopped", "shutting-down"}

VARIABLES
    keyPairs,       \* AWS: names of the imported key pairs
    secGroups,      \* AWS: security groups, records [id, name, vpc, ports]
    instances,      \* AWS: InstIds -> [state, tagged, az]
    volumes,        \* AWS: VolIds -> [state, az, tagInst, tagCreatedBy, attached]
    quotaRequests,  \* AWS Service Quotas: number of increase requests submitted
    sshConfig,      \* local ~/.ssh/config: InstIds -> alias number (0 = no entry)
    pc,             \* position of the running command ("idle", "done" or a step)
    args,           \* command line of the running command
    loc,            \* local variables of the running command
    calls,          \* calls made by the running command, in order: [op, arg]
    steps,          \* launch: the workflow steps begun so far: [name, res]
    out,            \* the running command's stdout: [progress, emits]
    result,         \* exit status of the command: [exit, err]
    start,          \* the persistent state when the running command started
    runs            \* number of commands started

aws  == <<keyPairs, secGroups, instances, volumes, quotaRequests>>
vars == <<keyPairs, secGroups, instances, volumes, quotaRequests, sshConfig,
          pc, args, loc, calls, steps, out, result, start, runs>>

\* --------------------------------------------------------------- helpers
Range(s) == {s[i] : i \in 1..Len(s)}

RECURSIVE SetToSeq(_)
\* the elements of a finite set of integers, in increasing order
SetToSeq(S) ==
    IF S = {} THEN <<>>
    ELSE LET m == CHOOSE x \in S : \A y \in S : x <= y
         IN  <<m>> \o SetToSeq(S \ {m})

Call(op, arg) == [op |-> op, arg |-> arg]

Persistent == [keyPairs |-> keyPairs, secGroups |-> secGroups,
               instances |-> instances, volumes |-> volumes,
               quotaRequests |-> quotaRequests, sshConfig |-> sshConfig]

\* ------------------------------------------------------------ output.py
\* is_text(): the output format is text
is_text(fmt) == fmt = "text"

\* output.echo / output.secho and cli.step / info / val / success:
\* write to stdout in text mode only
echo(o, fmt) == IF is_text(fmt) THEN [o EXCEPT !.progress = TRUE] ELSE o

\* click.echo / click.secho called directly (no is_text guard): always stdout
click_echo(o) == [o EXCEPT !.progress = TRUE]

\* cli.warn: "WARNING: msg" on stderr in text mode, nothing in the
\* structured output modes
warn(o, fmt, msg) == IF is_text(fmt) THEN [o EXCEPT !.warnings = @ \cup {msg}] ELSE o

\* output.emit: one structured document in json, yaml and table mode,
\* nothing in text mode
emit(o, fmt) == IF is_text(fmt) THEN o ELSE [o EXCEPT !.emits = @ + 1]

\* ------------------------------------------------------- initial state
NoArgs == [cmd |-> "none", fmt |-> "text", yes |-> FALSE, dry_run |-> FALSE,
           ebs_storage |-> NoSize, ebs_volume_id |-> NoVol,
           keep_ebs |-> FALSE, include_ebs |-> FALSE, ids |-> <<>>,
           desired |-> 0, region |-> "us-west-2", quota_code |-> "none",
           retries |-> DefaultRetries, delay |-> DefaultDelay,
           ssh_port |-> DefaultPort]

NoLoc == [instance_id |-> NoInst, public_ip |-> FALSE, az |-> "none",
          ebs_volume_attached |-> NoVol, ebs_format |-> FALSE,
          targets |-> <<>>, ebs |-> <<>>, changes |-> <<>>, vi |-> 0,
          deleted |-> {}, live |-> {}, stale |-> {}, orphans |-> <<>>,
          answer |-> "none", run_codes |-> <<>>, hint |-> {},
          raised |-> {}, escaped |-> "none",
          attempt |-> 0, slept |-> 0, ret |-> "none", sg_id |-> "none",
          probe_ports |-> {}, ssh_cmd_ports |-> {}, current |-> 0]

NoOut == [progress |-> FALSE, emits |-> 0, warnings |-> {}]
NoResult == [exit |-> "none", err |-> "none"]

Init ==
    /\ keyPairs = {}
    /\ secGroups = {}
    /\ instances = [i \in InstIds |->
                      IF i = ForeignInst
                      THEN [state |-> "running", tagged |-> FALSE, az |-> "us-west-2a"]
                      ELSE [state |-> "absent", tagged |-> FALSE, az |-> "none"]]
    /\ volumes = [v \in VolIds |->
                    IF v = UserVol
                    THEN [state |-> "available", az |-> "us-west-2a", tagInst |-> NoInst,
                          tagCreatedBy |-> FALSE, attached |-> NoInst]
                    ELSE [state |-> "absent", az |-> "none", tagInst |-> NoInst,
                          tagCreatedBy |-> FALSE, attached |-> NoInst]]
    /\ quotaRequests = 0
    /\ sshConfig = [i \in InstIds |-> 0]
    /\ pc = "idle"
    /\ args = NoArgs
    /\ loc = NoLoc
    /\ calls = <<>>
    /\ steps = <<>>
    /\ out = NoOut
    /\ result = NoResult
    /\ start = [keyPairs |-> {}, secGroups |-> {}, instances |-> instances,
                volumes |-> volumes, quotaRequests |-> 0, sshConfig |-> sshConfig]
    /\ runs = 0

\* the command returned (exit status 0)
Return ==
    /\ pc' = "done"
    /\ result' = [exit |-> "ok", err |-> "none"]

\* the command raised: a CLIError (message kind m) or an unhandled exception
Raise(m) ==
    /\ pc' = "done"
    /\ result' = [exit |-> "error", err |-> m]

\* ------------------------------------------------------ cli._AWSGroup
\* error codes of a ClientError that _AWSGroup.invoke translates
AuthCodes == {"AuthFailure", "UnauthorizedOperation", "ExpiredTokenException",
              "ExpiredToken"}

\* a ClientError code that no handler of the tool names
OtherCode == "RequestLimitExceeded"

\* the credential and authorization failures of an AWS call: botocore
\* exceptions by class name, ClientErrors by error code
AwsExceptions == {"NoCredentialsError", "ProfileNotFound", "PartialCredentialsError"}
                     \cup AuthCodes \cup {OtherCode}

\* the ClientErrors among them
ClientErrors == AuthCodes \cup {OtherCode}

\* a bug: ExpiredToken is missing from the list of codes
invoke_without_expired_token(exc) ==
    IF exc = "NoCredentialsError" THEN "Unable to locate AWS credentials"
    ELSE IF exc = "ProfileNotFound" THEN "List available profiles"
    ELSE IF exc = "PartialCredentialsError" THEN "Incomplete AWS credentials"
    ELSE IF exc \in AuthCodes \ {"ExpiredToken"} THEN "AWS authorization failed"
    ELSE exc

\* _AWSGroup.invoke: the error the CLI ends with when exc leaves the body of
\* a subcommand: the message of the CLIError, or exc itself when it is
\* re-raised
invoke(exc) ==
    IF exc = "NoCredentialsError" THEN "Unable to locate AWS credentials"
    ELSE IF exc = "ProfileNotFound" THEN "List available profiles"
    ELSE IF exc = "PartialCredentialsError" THEN "Incomplete AWS credentials"
    ELSE IF exc \in AuthCodes THEN "AWS authorization failed"
    ELSE exc

\* ------------------------------------------------------------ cli.launch
\* the command line of launch; --no-setup, --spot/--on-demand and the key
\* file are read once, by the step that uses them, and are drawn there;
\* --ssh-port is left at its default here and varied in SpecSg and
\* SpecWaitForSsh
StartLaunch ==
    /\ pc = "idle"
    /\ runs < MaxRuns
    /\ \E fmt \in Formats, dry \in BOOLEAN,
          size \in {NoSize, 0, 96}, vid \in {NoVol, GhostVol} \cup VolIds :
          args' = [NoArgs EXCEPT !.cmd = "launch", !.fmt = fmt, !.dry_run = dry,
                                 !.ebs_storage = size, !.ebs_volume_id = vid]
    /\ pc' = "l_entry"
    /\ runs' = runs + 1
    /\ loc' = NoLoc
    /\ calls' = <<>>
    /\ steps' = <<>>
    /\ out' = NoOut
    /\ result' = NoResult
    /\ start' = Persistent
    /\ UNCHANGED <<aws, sshConfig>>

has_ebs == args.ebs_storage # NoSize \/ args.ebs_volume_id # NoVol

\* a bug: the options are tested for truth, not against None
mutually_exclusive_truthy(ebs_storage, ebs_volume_id) ==
    ebs_storage \notin {NoSize, 0} /\ ebs_volume_id # NoVol

\* ebs_storage is not None and ebs_volume_id is not None
mutually_exclusive(ebs_storage, ebs_volume_id) ==
    ebs_storage # NoSize /\ ebs_volume_id # NoVol

\* launch, up to the boto3 session: option check and key-file check
LaunchEntry ==
    /\ pc = "l_entry"
    /\ IF mutually_exclusive(args.ebs_storage, args.ebs_volume_id)
       THEN Raise("mutually exclusive")
       ELSE \E key_exists \in BOOLEAN :
              IF key_exists
              THEN pc' = "l_ami" /\ UNCHANGED result
              ELSE Raise("SSH public key not found")
    /\ UNCHANGED <<aws, sshConfig, args, loc, calls, steps, out, start, runs>>

\* boto3.Session (ProfileNotFound is raised here), then Step 1:
\* get_latest_ami, the first AWS call of launch; an exception of
\* describe_images leaves the body of launch
LaunchAmi ==
    /\ pc = "l_ami"
    /\ \E found \in BOOLEAN, exc \in AwsExceptions \cup {"none"} :
         IF exc = "ProfileNotFound"
         THEN /\ loc' = [loc EXCEPT !.raised = {exc}, !.escaped = exc]
              /\ Raise(invoke(exc))
              /\ UNCHANGED <<calls, steps, out>>
         ELSE /\ calls' = Append(calls, Call("describe_images", <<>>))
              /\ out' = echo(out, args.fmt)
              /\ IF exc # "none"
                 THEN /\ steps' = Append(steps, [name |-> "ami", res |-> "raised"])
                      /\ loc' = [loc EXCEPT !.raised = {exc}, !.escaped = exc]
                      /\ Raise(invoke(exc))
                 ELSE IF found
                 THEN /\ steps' = Append(steps, [name |-> "ami", res |-> "ok"])
                      /\ pc' = "l_key"
                      /\ UNCHANGED <<result, loc>>
                 ELSE /\ steps' = Append(steps, [name |-> "ami", res |-> "raised"])
                      /\ Raise("No AMI found")
                      /\ UNCHANGED loc
    /\ UNCHANGED <<aws, sshConfig, args, start, runs>>

\* ssh.import_key_pair: the key pairs after the call (an existing pair is
\* reused)
import_key_pair(kp) == kp \cup {KeyName}

\* Step 2: import_key_pair; both of its branches report with click.echo /
\* click.secho
LaunchKey ==
    /\ pc = "l_key"
    /\ \E other_error \in BOOLEAN :
         IF other_error
         THEN /\ calls' = Append(calls, Call("describe_key_pairs", <<>>))
              /\ steps' = Append(steps, [name |-> "key", res |-> "raised"])
              /\ out' = echo(out, args.fmt)
              /\ Raise("ClientError")
              /\ UNCHANGED keyPairs
         ELSE /\ calls' = IF KeyName \in keyPairs
                          THEN Append(calls, Call("describe_key_pairs", <<>>))
                          ELSE calls \o <<Call("describe_key_pairs", <<>>),
                                          Call("import_key_pair", <<>>)>>
              /\ keyPairs' = import_key_pair(keyPairs)
              /\ steps' = Append(steps, [name |-> "key", res |-> "ok"])
              /\ out' = click_echo(echo(out, args.fmt))
              /\ pc' = "l_sg"
              /\ UNCHANGED result
    /\ UNCHANGED <<secGroups, instances, volumes, quotaRequests, sshConfig,
                   args, loc, start, runs>>

\* the values --ssh-port takes here: the default and one other port
Ports == {DefaultPort, 2222}

DefaultVpc == "vpc-default"
NewGroupId == "sg-new"

\* describe_security_groups filtered by group-name and vpc-id
existing_groups(sgs, name) == {g \in sgs : g.name = name /\ g.vpc = DefaultVpc}

\* create_security_group(GroupName=name, VpcId=vpc_id): no ingress rule yet
create_security_group(sgs, name) ==
    sgs \cup {[id |-> NewGroupId, name |-> name, vpc |-> DefaultVpc, ports |-> {}]}

\* authorize_security_group_ingress(GroupId=sg_id, tcp, FromPort = ToPort = port)
authorize_security_group_ingress(sgs, sg_id, port) ==
    {IF g.id = sg_id THEN [g EXCEPT !.ports = @ \cup {port}] ELSE g : g \in sgs}

\* ec2.ensure_security_group: the groups after the call; a group of that
\* name in the default VPC is reused as it is, else one is created and the
\* ingress rule for ssh_port added
ensure_security_group(sgs, name, ssh_port) ==
    IF existing_groups(sgs, name) # {}
    THEN sgs
    ELSE authorize_security_group_ingress(create_security_group(sgs, name),
                                          NewGroupId, ssh_port)

\* the GroupId ensure_security_group returns, given the groups after it
returned_group_id(sgs, name) ==
    (CHOOSE g \in existing_groups(sgs, name) : TRUE).id

\* Step 3: ensure_security_group, then the dry-run branch or step 4
LaunchSg ==
    /\ pc = "l_sg"
    /\ \E default_vpc \in BOOLEAN :
         IF ~default_vpc
         THEN /\ calls' = Append(calls, Call("describe_vpcs", <<>>))
              /\ steps' = Append(steps, [name |-> "sg", res |-> "raised"])
              /\ Raise("No default VPC found")
              /\ UNCHANGED secGroups
         ELSE /\ calls' = IF existing_groups(secGroups, GroupName) # {}
                          THEN calls \o <<Call("describe_vpcs", <<>>),
                                          Call("describe_security_groups", <<>>)>>
                          ELSE calls \o <<Call("describe_vpcs", <<>>),
                                          Call("describe_security_groups", <<>>),
                                          Call("create_security_group", <<>>),
                                          Call("authorize_security_group_ingress",
                                               <<args.ssh_port>>)>>
              /\ secGroups' = ensure_security_group(secGroups, GroupName, args.ssh_port)
              /\ steps' = Append(steps, [name |-> "sg", res |-> "ok"])
              /\ pc' = IF args.dry_run THEN "l_dry" ELSE "l_run"
              /\ UNCHANGED result
    /\ out' = echo(out, args.fmt)
    /\ UNCHANGED <<keyPairs, instances, volumes, quotaRequests, sshConfig,
                   args, loc, start, runs>>

\* if config.dry_run: summary (text) or emit(result), then return
LaunchDryRun ==
    /\ pc = "l_dry"
    /\ out' = IF is_text(args.fmt) THEN click_echo(out) ELSE emit(out, args.fmt)
    /\ Return
    /\ UNCHANGED <<aws, sshConfig, args, loc, calls, steps, start, runs>>

FreeInsts == {i \in ToolInsts : instances[i].state = "absent"}
FreeVols  == {v \in ToolVols : volumes[v].state = "absent"}

RunCodes == {"ok", "MaxSpotInstanceCountExceeded", "VcpuLimitExceeded",
             "InsufficientInstanceCapacity", "SpotMaxPriceTooLow",
             "InstanceLimitExceeded"}

\* ec2._quota_hint: what the hint refers the user to
quota_hint(quota_type) ==
    {"aws-bootstrap quota show", "aws-bootstrap quota request --type " \o quota_type,
     "aws-bootstrap launch --instance-type t3.medium"}

\* ec2._raise_quota_error: the quota type it passes to _quota_hint
quota_type_of(code) ==
    IF code = "MaxSpotInstanceCountExceeded" THEN "spot" ELSE "on-demand"

\* a bug: every quota error is reported as a spot quota error
quota_error_always_spot(code) == "Spot instance quota exceeded"

\* ec2._raise_quota_error: the message for a quota error code
quota_error(code) ==
    IF code = "MaxSpotInstanceCountExceeded"
    THEN "Spot instance quota exceeded"
    ELSE "On-demand vCPU quota exceeded"

RunCall(spot) == Call("run_instances", <<IF spot THEN 1 ELSE 0>>)

\* the codes after which a spot request is offered again as on-demand
SpotRetryCodes == {"InsufficientInstanceCapacity", "SpotMaxPriceTooLow"}

\* a bug: the retry is made without asking
retry_as_on_demand_unasked(text, confirm) == TRUE

\* not is_text() or click.confirm("Retry as on-demand instance?"): the
\* prompt is only shown in text mode
retry_as_on_demand(text, confirm) == ~text \/ confirm

\* ec2.launch_instance: the run_instances calls it makes (arg 1 = spot
\* request, 0 = on-demand) and the error it raises ("none": an instance is
\* returned), given the error codes of the first and of the second call
launch_instance(spot, code1, text, confirm, code2) ==
    LET QuotaCodes == {"MaxSpotInstanceCountExceeded", "VcpuLimitExceeded"}
        once  == <<RunCall(spot)>>
        twice == <<RunCall(spot), RunCall(FALSE)>>
    IN  IF code1 = "ok"
        THEN [calls |-> once, err |-> "none", hint |-> {}]
        ELSE IF code1 \in QuotaCodes
        THEN [calls |-> once, err |-> quota_error(code1),
              hint |-> quota_hint(quota_type_of(code1))]
        ELSE IF code1 \in SpotRetryCodes /\ spot
        THEN IF retry_as_on_demand(text, confirm)
             THEN IF code2 = "ok"
                  THEN [calls |-> twice, err |-> "none", hint |-> {}]
                  ELSE IF code2 \in QuotaCodes
                  THEN [calls |-> twice, err |-> quota_error(code2),
                        hint |-> quota_hint(quota_type_of(code2))]
                  ELSE IF code2 = "InsufficientInstanceCapacity"
                  THEN [calls |-> twice, err |-> "Insufficient capacity (on-demand)",
                        hint |-> {}]
                  ELSE [calls |-> twice, err |-> code2, hint |-> {}]
             ELSE [calls |-> once, err |-> "Launch cancelled", hint |-> {}]
        ELSE IF code1 = "InsufficientInstanceCapacity"
        THEN [calls |-> once, err |-> "Insufficient capacity", hint |-> {}]
        ELSE [calls |-> once, err |-> code1, hint |-> {}]

\* Step 4: launch_instance
LaunchInstance ==
    /\ pc = "l_run"
    /\ out' = echo(out, args.fmt)
    /\ \E spot \in BOOLEAN, code1 \in RunCodes, confirm \in BOOLEAN,
          code2 \in RunCodes, az \in AZs :
         LET r == launch_instance(spot, code1, is_text(args.fmt), confirm, code2)
             codes == SubSeq(<<code1, code2>>, 1, Len(r.calls))
             \* the answer given to click.confirm, if it was shown
             answer == IF spot /\ code1 \in SpotRetryCodes /\ is_text(args.fmt)
                       THEN IF confirm THEN "yes" ELSE "no"
                       ELSE "none"
         IN  /\ (FreeInsts = {}) => r.err # "none"
             /\ calls' = calls \o r.calls
             /\ IF r.err = "none"
                THEN LET i == CHOOSE x \in FreeInsts : \A y \in FreeInsts : x <= y
                     IN  /\ instances' = [instances EXCEPT ![i] =
                                   [state |-> "pending", tagged |-> TRUE, az |-> az]]
                         /\ loc' = [loc EXCEPT !.instance_id = i,
                                               !.run_codes = codes,
                                               !.answer = answer]
                         /\ steps' = Append(steps, [name |-> "launch", res |-> "ok"])
                         /\ pc' = "l_ready"
                         /\ UNCHANGED result
                ELSE /\ steps' = Append(steps, [name |-> "launch", res |-> "raised"])
                     /\ Raise(r.err)
                     /\ loc' = [loc EXCEPT !.run_codes = codes, !.hint = r.hint,
                                           !.answer = answer]
                     /\ UNCHANGED instances
    /\ UNCHANGED <<keyPairs, secGroups, volumes, quotaRequests, sshConfig,
                   args, start, runs>>

\* a bug: launch goes on without a public IP
after_wait_instance_ready_no_return(public_ip, ebs) ==
    IF ebs THEN "l_ebs" ELSE "l_ssh"

\* if not public_ip: warn, info, return; else the EBS step if a data volume
\* was asked for, else the SSH step
after_wait_instance_ready(public_ip, ebs) ==
    IF ~public_ip THEN "done" ELSE IF ebs THEN "l_ebs" ELSE "l_ssh"

\* Step 5: wait_instance_ready; warn and return when there is no public IP
LaunchReady ==
    /\ pc = "l_ready"
    /\ calls' = Append(calls, Call("wait_instance_ready", <<loc.instance_id>>))
    /\ \E ok \in BOOLEAN, ip \in BOOLEAN :
         /\ out' = IF ok /\ ~ip
                   THEN warn(echo(out, args.fmt), args.fmt, "no_public_ip")
                   ELSE echo(out, args.fmt)
         /\ IF ~ok
            THEN /\ steps' = Append(steps, [name |-> "wait_ready", res |-> "raised"])
                 /\ Raise("WaiterError")
                 /\ UNCHANGED <<instances, loc>>
            ELSE /\ instances' = [instances EXCEPT ![loc.instance_id].state = "running"]
                 /\ loc' = [loc EXCEPT !.public_ip = ip,
                                       !.az = instances[loc.instance_id].az]
                 /\ steps' = Append(steps, [name |-> "wait_ready", res |-> "ok"])
                 /\ pc' = after_wait_instance_ready(ip, has_ebs)
                 /\ result' = IF after_wait_instance_ready(ip, has_ebs) = "done"
                              THEN [exit |-> "ok", err |-> "none"]
                              ELSE result
    /\ UNCHANGED <<keyPairs, secGroups, volumes, quotaRequests, sshConfig,
                   args, start, runs>>

\* a bug: the state of the volume is not looked at
validate_ebs_volume_no_state_check(vols, vid, az, api_error) ==
    IF api_error
    THEN "ClientError"
    ELSE IF vid \notin VolIds \/ vols[vid].state \in {"absent", "deleted"}
    THEN "EBS volume not found"
    ELSE IF vols[vid].az # az
    THEN "EBS volume in another AZ"
    ELSE "none"

\* ec2.validate_ebs_volume: the error it raises, "none" when it accepts;
\* api_error: describe_volumes failed with a code other than
\* InvalidVolume.NotFound, and that ClientError is re-raised as it is
validate_ebs_volume(vols, vid, az, api_error) ==
    IF api_error
    THEN "ClientError"
    ELSE IF vid \notin VolIds \/ vols[vid].state \in {"absent", "deleted"}
    THEN "EBS volume not found"
    ELSE IF vols[vid].state # "available"
    THEN "EBS volume must be available"
    ELSE IF vols[vid].az # az
    THEN "EBS volume in another AZ"
    ELSE "none"

\* a bug: the existing volume is not tagged with the instance
create_tags_created_by_only(vols, vid, instance_id) ==
    [vols EXCEPT ![vid].tagCreatedBy = TRUE]

\* ec2.create_tags on the existing volume: aws-bootstrap-instance =
\* instance_id and created-by = tag_value
create_tags(vols, vid, instance_id) ==
    [vols EXCEPT ![vid].tagInst = instance_id, ![vid].tagCreatedBy = TRUE]

\* Step 5.5: EBS data volume: create_ebs_volume, or validate_ebs_volume and
\* create_tags
LaunchEbs ==
    /\ pc = "l_ebs"
    /\ out' = echo(out, args.fmt)
    /\ IF args.ebs_storage # NoSize /\ args.ebs_storage # 0
       THEN \* create_ebs_volume: create_volume, then the volume_available waiter
            IF FreeVols = {}
            THEN /\ calls' = Append(calls, Call("create_volume", <<NoVol>>))
                 /\ steps' = Append(steps, [name |-> "ebs_prepare", res |-> "raised"])
                 /\ Raise("VolumeLimitExceeded")
                 /\ UNCHANGED <<volumes, loc>>
            ELSE LET v == CHOOSE x \in FreeVols : \A y \in FreeVols : x <= y
                 IN  /\ volumes' = [volumes EXCEPT ![v] =
                            [state |-> "available", az |-> loc.az,
                             tagInst |-> loc.instance_id, tagCreatedBy |-> TRUE,
                             attached |-> NoInst]]
                     /\ \E ok \in BOOLEAN :
                          /\ calls' = calls \o
                                <<Call("create_volume", <<v>>),
                                  Call("wait_volume_available",
                                       <<v, IF ok THEN 1 ELSE 0>>)>>
                          /\ IF ok
                             THEN /\ loc' = [loc EXCEPT !.ebs_volume_attached = v,
                                                        !.ebs_format = TRUE]
                                  /\ steps' = Append(steps,
                                        [name |-> "ebs_prepare", res |-> "ok"])
                                  /\ pc' = "l_attach"
                                  /\ UNCHANGED result
                             ELSE /\ steps' = Append(steps,
                                        [name |-> "ebs_prepare", res |-> "raised"])
                                  /\ Raise("WaiterError")
                                  /\ UNCHANGED loc
       ELSE IF args.ebs_volume_id # NoVol
       THEN \E api_error \in BOOLEAN :
            LET vid == args.ebs_volume_id
                e   == validate_ebs_volume(volumes, vid, loc.az, api_error)
            IN  IF e # "none"
                THEN /\ calls' = Append(calls, Call("describe_volumes", <<vid>>))
                     /\ steps' = Append(steps, [name |-> "ebs_prepare", res |-> "raised"])
                     /\ Raise(e)
                     /\ UNCHANGED <<volumes, loc>>
                ELSE /\ calls' = calls \o <<Call("describe_volumes", <<vid>>),
                                            Call("create_tags", <<vid, loc.instance_id>>)>>
                     /\ volumes' = create_tags(volumes, vid, loc.instance_id)
                     /\ loc' = [loc EXCEPT !.ebs_volume_attached = vid,
                                           !.ebs_format = FALSE]
                     /\ steps' = Append(steps, [name |-> "ebs_prepare", res |-> "ok"])
                     /\ pc' = "l_attach"
                     /\ UNCHANGED result
       ELSE \* --ebs-storage 0: neither branch, nothing to attach
            /\ pc' = "l_attach"
            /\ UNCHANGED <<volumes, loc, calls, steps, result>>
    /\ UNCHANGED <<keyPairs, secGroups, instances, quotaRequests, sshConfig,
                   args, start, runs>>

\* attach_ebs_volume: attach_volume, then the volume_in_use waiter
LaunchAttach ==
    /\ pc = "l_attach"
    /\ LET v == loc.ebs_volume_attached
       IN  IF v = NoVol
           THEN /\ calls' = Append(calls, Call("attach_volume", <<NoVol, loc.instance_id>>))
                /\ steps' = Append(steps, [name |-> "ebs_attach", res |-> "raised"])
                /\ out' = echo(out, args.fmt)
                /\ Raise("ParamValidationError")
                /\ UNCHANGED volumes
           ELSE /\ calls' = calls \o <<Call("attach_volume", <<v, loc.instance_id>>),
                                       Call("wait_volume_in_use", <<v>>)>>
                /\ volumes' = [volumes EXCEPT ![v].state = "in-use",
                                              ![v].attached = loc.instance_id]
                /\ out' = echo(out, args.fmt)
                /\ \E ok \in BOOLEAN :
                     IF ok
                     THEN /\ steps' = Append(steps, [name |-> "ebs_attach", res |-> "ok"])
                          /\ pc' = "l_ssh"
                          /\ UNCHANGED result
                     ELSE /\ steps' = Append(steps,
                                [name |-> "ebs_attach", res |-> "raised"])
                          /\ Raise("WaiterError")
    /\ UNCHANGED <<keyPairs, secGroups, instances, quotaRequests, sshConfig,
                   args, loc, start, runs>>

\* a bug: launch goes on when wait_for_ssh gave up
after_wait_for_ssh_no_return(ok) == "l_setup"

\* if not wait_for_ssh(...): warn, info, return
after_wait_for_ssh(ok) == IF ok THEN "l_setup" ELSE "done"

\* wait_for_ssh: every attempt reports with click.echo / click.secho;
\* launch returns when it gives up
LaunchSsh ==
    /\ pc = "l_ssh"
    /\ calls' = Append(calls, Call("wait_for_ssh", <<loc.instance_id>>))
    /\ \E ok \in BOOLEAN :
         /\ out' = IF ok
                   THEN click_echo(echo(out, args.fmt))
                   ELSE warn(click_echo(echo(out, args.fmt)), args.fmt, "ssh_timeout")
         /\ steps' = Append(steps, [name |-> "wait_ssh",
                                    res |-> IF ok THEN "ok" ELSE "failed"])
         /\ pc' = after_wait_for_ssh(ok)
         /\ result' = IF after_wait_for_ssh(ok) = "done"
                      THEN [exit |-> "ok", err |-> "none"]
                      ELSE result
    /\ UNCHANGED <<aws, sshConfig, args, loc, start, runs>>

\* a bug: launch ends when the remote setup failed
after_remote_setup_abort(ok, ebs_volume_attached) ==
    IF ~ok
    THEN "done"
    ELSE IF ebs_volume_attached # NoVol THEN "l_mount" ELSE "l_alias"

\* where launch goes on after the setup block: run_remote_setup returning
\* False only takes the warn branch, and the mount block follows if a volume
\* was attached, add_ssh_host otherwise
after_remote_setup(ok, ebs_volume_attached) ==
    IF ebs_volume_attached # NoVol THEN "l_mount" ELSE "l_alias"

\* if config.run_setup: a missing script is warned about and skipped;
\* run_remote_setup reports with click.echo, and its failure is only warned
\* about
LaunchSetup ==
    /\ pc = "l_setup"
    /\ \E run_setup \in BOOLEAN, script_exists \in BOOLEAN, ok \in BOOLEAN :
         IF run_setup /\ script_exists
         THEN /\ calls' = Append(calls, Call("run_remote_setup", <<loc.instance_id>>))
              /\ steps' = Append(steps, [name |-> "setup",
                                         res |-> IF ok THEN "ok" ELSE "failed"])
              /\ out' = IF ok
                        THEN click_echo(echo(out, args.fmt))
                        ELSE warn(click_echo(echo(out, args.fmt)), args.fmt,
                                  "setup_failed")
              /\ pc' = after_remote_setup(ok, loc.ebs_volume_attached)
         ELSE /\ out' = IF run_setup
                        THEN warn(out, args.fmt, "setup_script_not_found")
                        ELSE out
              /\ pc' = after_remote_setup(TRUE, loc.ebs_volume_attached)
              /\ UNCHANGED <<calls, steps>>
    /\ UNCHANGED <<aws, sshConfig, args, loc, result, start, runs>>

\* a bug: the volume is formatted whatever ebs_format says
mount_call_always_format(volume_id, ebs_format) ==
    Call("mount_ebs_volume", <<volume_id, 1>>)

\* mount_ebs_volume(..., format_volume=ebs_format): arg <<volume, 1>> when
\* the volume is to be formatted, <<volume, 0>> when not
mount_call(volume_id, ebs_format) ==
    Call("mount_ebs_volume", <<volume_id, IF ebs_format THEN 1 ELSE 0>>)

\* Mount EBS volume via SSH; a failure is only warned about
LaunchMount ==
    /\ pc = "l_mount"
    /\ calls' = Append(calls, mount_call(loc.ebs_volume_attached, loc.ebs_format))
    /\ \E ok \in BOOLEAN :
         /\ steps' = Append(steps, [name |-> "mount",
                                    res |-> IF ok THEN "ok" ELSE "failed"])
         /\ out' = IF ok
                   THEN echo(out, args.fmt)
                   ELSE warn(echo(out, args.fmt), args.fmt, "mount_failed")
    /\ pc' = "l_alias"
    /\ UNCHANGED <<aws, sshConfig, args, loc, result, start, runs>>

\* ssh.add_ssh_host: the config with an entry for instance i under the
\* first free alias number
add_ssh_host(cfg, i) ==
    LET used == {cfg[j] : j \in InstIds}
        n    == CHOOSE k \in 1..(Cardinality(InstIds) + 1) :
                    k \notin used /\ \A m \in 1..(k - 1) : m \in used
    IN  [cfg EXCEPT ![i] = n]

\* add_ssh_host, then the result: emit(result_data) or the text summary
LaunchAlias ==
    /\ pc = "l_alias"
    /\ calls' = Append(calls, Call("add_ssh_host", <<loc.instance_id>>))
    /\ sshConfig' = add_ssh_host(sshConfig, loc.instance_id)
    /\ steps' = Append(steps, [name |-> "alias", res |-> "ok"])
    /\ out' = IF is_text(args.fmt) THEN click_echo(out) ELSE emit(out, args.fmt)
    /\ Return
    /\ UNCHANGED <<aws, args, loc, start, runs>>

Launch ==
    \/ StartLaunch \/ LaunchEntry \/ LaunchAmi \/ LaunchKey \/ LaunchSg
    \/ LaunchDryRun \/ LaunchInstance \/ LaunchReady \/ LaunchEbs
    \/ LaunchAttach \/ LaunchSsh \/ LaunchSetup \/ LaunchMount \/ LaunchAlias

\* --------------------------------------------------------- cli.terminate
\* a command-line target: an instance ID or an SSH alias (aws-gpu<n>)
Id(n)    == [alias |-> FALSE, n |-> n]
Alias(n) == [alias |-> TRUE, n |-> n]
UnknownAlias == Alias(MaxInst + 5)

TargetValues == {Id(i) : i \in InstIds} \cup {Alias(n) : n \in ToolInsts}
                    \cup {UnknownAlias}

TargetLists ==
    {<<>>} \cup {<<v>> : v \in TargetValues}
           \cup UNION {{<<Id(i), w>> :
                           w \in {Id(j) : j \in ToolInsts \ {i}} \cup {UnknownAlias}} :
                        i \in ToolInsts}

StartTerminate ==
    /\ pc = "idle"
    /\ runs < MaxRuns
    /\ \E fmt \in Formats, yes \in BOOLEAN, keep \in BOOLEAN, ids \in TargetLists :
          args' = [NoArgs EXCEPT !.cmd = "terminate", !.fmt = fmt, !.yes = yes,
                                 !.keep_ebs = keep, !.ids = ids]
    /\ pc' = "t_entry"
    /\ runs' = runs + 1
    /\ loc' = NoLoc
    /\ calls' = <<>>
    /\ steps' = <<>>
    /\ out' = NoOut
    /\ result' = NoResult
    /\ start' = Persistent
    /\ UNCHANGED <<aws, sshConfig>>

\* a bug: the --yes check is missing
requires_yes_never(fmt, yes) == FALSE

\* if not is_text(ctx) and not yes: raise CLIError("--yes is required ...")
requires_yes(fmt, yes) == ~is_text(fmt) /\ ~yes

\* ssh.resolve_instance_id: an instance ID is passed through, an alias is
\* looked up in the SSH config; NoInst when the value resolves to nothing
resolve_instance_id(cfg, value) ==
    IF ~value.alias
    THEN value.n
    ELSE IF \E i \in InstIds : cfg[i] = value.n
    THEN CHOOSE i \in InstIds : cfg[i] = value.n
    ELSE NoInst

\* ec2.find_tagged_instances: the non-terminated instances with the
\* created-by tag
find_tagged_instances(insts) ==
    {i \in InstIds : insts[i].tagged /\ insts[i].state \in LiveStates}

\* terminate, up to the confirmation prompt: the --yes check, then the
\* targets (resolved from the command line, or found by tag)
TerminateEntry ==
    /\ pc = "t_entry"
    /\ IF requires_yes(args.fmt, args.yes)
       THEN /\ Raise("--yes is required")
            /\ UNCHANGED <<loc, calls, out>>
       ELSE IF args.ids # <<>>
       THEN LET resolved == [k \in 1..Len(args.ids) |->
                                resolve_instance_id(sshConfig, args.ids[k])]
            IN  IF \E k \in 1..Len(resolved) : resolved[k] = NoInst
                THEN /\ Raise("Could not resolve")
                     /\ out' = IF \E k \in 1..Len(resolved) :
                                     /\ args.ids[k].alias /\ resolved[k] # NoInst
                                     /\ \E m \in (k + 1)..Len(resolved) :
                                            resolved[m] = NoInst
                               THEN echo(out, args.fmt) ELSE out
                     /\ UNCHANGED <<loc, calls>>
                ELSE /\ loc' = [loc EXCEPT !.targets = resolved]
                     /\ out' = IF \E k \in 1..Len(resolved) : args.ids[k].alias
                               THEN echo(out, args.fmt) ELSE out
                     /\ pc' = IF args.yes THEN "t_discover" ELSE "t_confirm"
                     /\ UNCHANGED <<result, calls>>
       ELSE LET found == find_tagged_instances(instances)
            IN  /\ calls' = Append(calls, Call("describe_instances", <<>>))
                /\ IF found = {}
                   THEN /\ out' = IF is_text(args.fmt) THEN click_echo(out)
                                  ELSE emit(out, args.fmt)
                        /\ Return
                        /\ UNCHANGED loc
                   ELSE /\ loc' = [loc EXCEPT !.targets = SetToSeq(found)]
                        /\ out' = echo(out, args.fmt)
                        /\ pc' = IF args.yes THEN "t_discover" ELSE "t_confirm"
                        /\ UNCHANGED result
    /\ UNCHANGED <<aws, sshConfig, args, steps, start, runs>>

\* a bug: the answer to the prompt is not looked at
after_confirm_ignored(answer) == "t_discover"

\* if not click.confirm(...): "Cancelled.", return
after_confirm(answer) == IF answer THEN "t_discover" ELSE "done"

\* if not yes: click.confirm; "no" cancels the command
TerminateConfirm ==
    /\ pc = "t_confirm"
    /\ out' = click_echo(out)
    /\ \E answer \in BOOLEAN :
         /\ loc' = [loc EXCEPT !.answer = IF answer THEN "yes" ELSE "no"]
         /\ pc' = after_confirm(answer)
         /\ result' = IF after_confirm(answer) = "done"
                      THEN [exit |-> "ok", err |-> "none"]
                      ELSE result
    /\ UNCHANGED <<aws, sshConfig, args, calls, steps, start, runs>>

\* ec2.find_ebs_volumes_for_instance: the volumes carrying both tags
find_ebs_volumes_for_instance(vols, iid) ==
    {v \in VolIds : /\ vols[v].state \in {"available", "in-use"}
                    /\ vols[v].tagInst = iid
                    /\ vols[v].tagCreatedBy}

RECURSIVE Discover(_, _, _)
\* ebs_by_instance as the list of its (instance, volume) pairs, in the order
\* the cleanup loop visits them; describe_volumes failed for the targets in
\* failed (find_ebs_volumes_for_instance returns [] there)
Discover(vols, targets, failed) ==
    IF targets = <<>> THEN <<>>
    ELSE LET t    == Head(targets)
             rest == Discover(vols, Tail(targets), failed)
             mine == IF t \in failed THEN <<>>
                     ELSE [k \in 1..Cardinality(find_ebs_volumes_for_instance(vols, t)) |->
                             <<t, SetToSeq(find_ebs_volumes_for_instance(vols, t))[k]>>]
         IN  mine \o rest

\* Discover EBS volumes before termination
TerminateDiscover ==
    /\ pc = "t_discover"
    /\ \E failed \in SUBSET Range(loc.targets), exc \in ClientErrors :
         loc' = [loc EXCEPT !.ebs = Discover(volumes, loc.targets, failed), !.vi = 1,
                            !.raised = IF failed = {} THEN {} ELSE {exc}]
    /\ calls' = calls \o [k \in 1..Len(loc.targets) |->
                            Call("describe_volumes", <<loc.targets[k]>>)]
    /\ pc' = "t_term"
    /\ UNCHANGED <<aws, sshConfig, args, steps, out, result, start, runs>>

\* ssh.remove_ssh_host for every instance of ids: their entries are gone
remove_ssh_hosts(cfg, ids) == [i \in InstIds |-> IF i \in ids THEN 0 ELSE cfg[i]]

\* AWS terminate_instances on existing instances
terminate_instances(insts, ids) ==
    [i \in InstIds |->
        IF i \in ids /\ insts[i].state # "terminated"
        THEN [insts[i] EXCEPT !.state = "shutting-down"]
        ELSE insts[i]]

\* terminate_tagged_instances(ec2, targets), then remove_ssh_host for every
\* state change returned
TerminateInstances ==
    /\ pc = "t_term"
    /\ calls' = Append(calls, Call("terminate_instances", loc.targets))
    /\ IF \E i \in Range(loc.targets) : instances[i].state = "absent"
       THEN /\ Raise("InvalidInstanceID.NotFound")
            /\ UNCHANGED <<instances, sshConfig, loc, out>>
       ELSE /\ instances' = terminate_instances(instances, Range(loc.targets))
            /\ sshConfig' = remove_ssh_hosts(sshConfig, Range(loc.targets))
            /\ loc' = [loc EXCEPT !.changes = loc.targets]
            /\ out' = echo(out, args.fmt)
            /\ pc' = IF loc.vi <= Len(loc.ebs) THEN "t_vol" ELSE "t_out"
            /\ UNCHANGED result
    /\ UNCHANGED <<keyPairs, secGroups, volumes, quotaRequests, args, steps,
                   start, runs>>

WaitCall(vid, ok)   == Call("wait_volume_available", <<vid, IF ok THEN 1 ELSE 0>>)
DeleteCall(vid, ok) == Call("delete_volume", <<vid, IF ok THEN 1 ELSE 0>>)

\* a bug: --keep-ebs is not looked at
ebs_cleanup_ignores_keep(keep_ebs, vid, waited, deleted) ==
    IF ~waited
    THEN [calls |-> <<WaitCall(vid, FALSE)>>, fate |-> "left"]
    ELSE IF ~deleted
    THEN [calls |-> <<WaitCall(vid, TRUE), DeleteCall(vid, FALSE)>>, fate |-> "detached"]
    ELSE [calls |-> <<WaitCall(vid, TRUE), DeleteCall(vid, TRUE)>>, fate |-> "deleted"]

\* a bug: the volume is deleted whether or not the waiter succeeded
ebs_cleanup_no_wait(keep_ebs, vid, waited, deleted) ==
    IF keep_ebs
    THEN [calls |-> <<>>, fate |-> "left"]
    ELSE IF ~deleted
    THEN [calls |-> <<WaitCall(vid, waited), DeleteCall(vid, FALSE)>>, fate |-> "detached"]
    ELSE [calls |-> <<WaitCall(vid, waited), DeleteCall(vid, TRUE)>>, fate |-> "deleted"]

\* a bug: a volume whose deletion failed is recorded as deleted
ebs_cleanup_records_failed(keep_ebs, vid, waited, deleted) ==
    IF keep_ebs
    THEN [calls |-> <<>>, fate |-> "left"]
    ELSE IF ~waited
    THEN [calls |-> <<WaitCall(vid, FALSE)>>, fate |-> "left"]
    ELSE IF ~deleted
    THEN [calls |-> <<WaitCall(vid, TRUE), DeleteCall(vid, FALSE)>>, fate |-> "deleted"]
    ELSE [calls |-> <<WaitCall(vid, TRUE), DeleteCall(vid, TRUE)>>, fate |-> "deleted"]

\* one round of the EBS cleanup loop of terminate: the calls made for the
\* volume and what becomes of it.  --keep-ebs: only a message; otherwise the
\* volume_available waiter, then delete_ebs_volume; an exception raised by
\* either ends the round with a warning
ebs_cleanup(keep_ebs, vid, waited, deleted) ==
    IF keep_ebs
    THEN [calls |-> <<>>, fate |-> "left"]
    ELSE IF ~waited
    THEN [calls |-> <<WaitCall(vid, FALSE)>>, fate |-> "left"]
    ELSE IF ~deleted
    THEN [calls |-> <<WaitCall(vid, TRUE), DeleteCall(vid, FALSE)>>, fate |-> "detached"]
    ELSE [calls |-> <<WaitCall(vid, TRUE), DeleteCall(vid, TRUE)>>, fate |-> "deleted"]

\* Handle EBS volume cleanup: one round of the loop
TerminateVolume ==
    /\ pc = "t_vol"
    /\ \E waited \in BOOLEAN, deleted \in BOOLEAN :
         LET iid == loc.ebs[loc.vi][1]
             vid == loc.ebs[loc.vi][2]
             r   == ebs_cleanup(args.keep_ebs, vid, waited, deleted)
         IN  /\ calls' = calls \o r.calls
             /\ volumes' = IF r.fate = "deleted"
                           THEN [volumes EXCEPT ![vid].state = "deleted",
                                                ![vid].attached = NoInst]
                           ELSE IF r.fate = "detached"
                           THEN [volumes EXCEPT ![vid].state = "available",
                                                ![vid].attached = NoInst]
                           ELSE volumes
             /\ loc' = [loc EXCEPT !.vi = @ + 1,
                                   !.deleted = IF r.fate = "deleted"
                                               THEN @ \cup {<<iid, vid>>} ELSE @]
             /\ out' = IF args.keep_ebs \/ r.fate = "deleted"
                       THEN echo(out, args.fmt)
                       ELSE warn(echo(out, args.fmt), args.fmt, "delete_failed")
    /\ pc' = IF loc.vi + 1 <= Len(loc.ebs) THEN "t_vol" ELSE "t_out"
    /\ UNCHANGED <<keyPairs, secGroups, instances, quotaRequests, sshConfig,
                   args, steps, result, start, runs>>

\* the result: emit({"terminated": ...}) or the text summary
TerminateOutput ==
    /\ pc = "t_out"
    /\ out' = IF is_text(args.fmt) THEN click_echo(out) ELSE emit(out, args.fmt)
    /\ Return
    /\ UNCHANGED <<aws, sshConfig, args, loc, calls, steps, start, runs>>

Terminate ==
    \/ StartTerminate \/ TerminateEntry \/ TerminateConfirm \/ TerminateDiscover
    \/ TerminateInstances \/ TerminateVolume \/ TerminateOutput

\* ----------------------------------------------------------- cli.cleanup
StartCleanup ==
    /\ pc = "idle"
    /\ runs < MaxRuns
    /\ \E fmt \in Formats, yes \in BOOLEAN, dry \in BOOLEAN, ebs \in BOOLEAN,
          region \in Regions :
          args' = [NoArgs EXCEPT !.cmd = "cleanup", !.fmt = fmt, !.yes = yes,
                                 !.dry_run = dry, !.include_ebs = ebs,
                                 !.region = region]
    /\ pc' = "c_entry"
    /\ runs' = runs + 1
    /\ loc' = NoLoc
    /\ calls' = <<>>
    /\ steps' = <<>>
    /\ out' = NoOut
    /\ result' = NoResult
    /\ start' = Persistent
    /\ UNCHANGED <<aws, sshConfig>>

\* the region of an availability zone (every zone of AZs is in us-west-2)
RegionOf(az) == IF az \in AZs THEN "us-west-2" ELSE "none"

\* session.client("ec2") of a region: the instances that describe_instances
\* of that client can return
InstancesIn(insts, region) ==
    [i \in InstIds |-> IF RegionOf(insts[i].az) = region
                       THEN insts[i]
                       ELSE [state |-> "absent", tagged |-> FALSE, az |-> "none"]]

\* the volumes that describe_volumes of the region's client can return
VolumesIn(vols, region) ==
    [v \in VolIds |-> IF RegionOf(vols[v].az) = region
                      THEN vols[v]
                      ELSE [state |-> "absent", az |-> "none", tagInst |-> NoInst,
                            tagCreatedBy |-> FALSE, attached |-> NoInst]]

\* ssh.find_stale_ssh_hosts: the instances with an SSH config entry that are
\* not in live_ids
find_stale_ssh_hosts(cfg, live_ids) ==
    {i \in InstIds : cfg[i] # 0 /\ i \notin live_ids}

\* ssh.cleanup_stale_ssh_hosts: the config without its stale entries
cleanup_stale_ssh_hosts(cfg, live_ids) ==
    remove_ssh_hosts(cfg, find_stale_ssh_hosts(cfg, live_ids))

\* a bug: the volumes of live instances are taken for the orphans
find_orphan_ebs_volumes_of_live(vols, live_instance_ids) ==
    {v \in VolIds : /\ vols[v].tagCreatedBy
                    /\ vols[v].state = "available"
                    /\ vols[v].tagInst # NoInst
                    /\ vols[v].tagInst \in live_instance_ids}

\* a bug: describe_volumes is not filtered by status
find_orphan_ebs_volumes_any_state(vols, live_instance_ids) ==
    {v \in VolIds : /\ vols[v].tagCreatedBy
                    /\ vols[v].state \in {"available", "in-use"}
                    /\ vols[v].tagInst # NoInst
                    /\ vols[v].tagInst \notin live_instance_ids}

\* ec2.find_orphan_ebs_volumes, when describe_volumes answers: of the
\* volumes the filters (created-by tag, status available) let through, those
\* whose instance tag is set and names no live instance
find_orphan_ebs_volumes(vols, live_instance_ids) ==
    {v \in VolIds : /\ vols[v].tagCreatedBy
                    /\ vols[v].state = "available"
                    /\ vols[v].tagInst # NoInst
                    /\ vols[v].tagInst \notin live_instance_ids}

\* find_orphan_ebs_volumes with its except clause: a ClientError of
\* describe_volumes yields the empty list
orphans_or_empty(vols, live_instance_ids, client_error) ==
    IF client_error THEN {} ELSE find_orphan_ebs_volumes(vols, live_instance_ids)

\* a bug: --dry-run does not end the command
reports_only_ignores_dry_run(stale, orphan_volumes, dry_run) ==
    stale = {} /\ orphan_volumes = <<>>

\* cleanup ends after its report: nothing was found, or --dry-run
reports_only(stale, orphan_volumes, dry_run) ==
    (stale = {} /\ orphan_volumes = <<>>) \/ dry_run

\* cleanup, up to the confirmation prompt: the --yes check, discovery of
\* stale entries and orphan volumes, the nothing-found and --dry-run reports
CleanupEntry ==
    /\ pc = "c_entry"
    /\ IF requires_yes(args.fmt, args.yes) /\ ~args.dry_run
       THEN /\ Raise("--yes is required")
            /\ UNCHANGED <<loc, calls, out>>
       ELSE \E describe_failed \in BOOLEAN :
            LET live    == find_tagged_instances(InstancesIn(instances, args.region))
                stale   == find_stale_ssh_hosts(sshConfig, live)
                orphans == IF args.include_ebs
                           THEN SetToSeq(orphans_or_empty(VolumesIn(volumes, args.region),
                                                          live, describe_failed))
                           ELSE <<>>
            IN  /\ calls' = IF args.include_ebs
                            THEN calls \o <<Call("describe_instances", <<>>),
                                            Call("describe_volumes",
                                                 <<IF describe_failed THEN 0 ELSE 1>>)>>
                            ELSE Append(calls, Call("describe_instances", <<>>))
                /\ loc' = [loc EXCEPT !.live = live, !.stale = stale,
                                      !.orphans = orphans]
                /\ IF reports_only(stale, orphans, args.dry_run)
                   THEN /\ out' = IF is_text(args.fmt) THEN click_echo(out)
                                  ELSE emit(out, args.fmt)
                        /\ Return
                   ELSE /\ out' = echo(out, args.fmt)
                        /\ pc' = IF args.yes THEN "c_apply" ELSE "c_confirm"
                        /\ UNCHANGED result
    /\ UNCHANGED <<aws, sshConfig, args, steps, start, runs>>

\* if not yes: click.confirm; "no" cancels the command
CleanupConfirm ==
    /\ pc = "c_confirm"
    /\ out' = click_echo(out)
    /\ \E answer \in BOOLEAN :
         /\ loc' = [loc EXCEPT !.answer = IF answer THEN "yes" ELSE "no"]
         /\ IF answer
            THEN pc' = "c_apply" /\ UNCHANGED result
            ELSE Return
    /\ UNCHANGED <<aws, sshConfig, args, calls, steps, start, runs>>

\* cleanup_stale_ssh_hosts, then delete_ebs_volume for every orphan (a
\* failure is recorded, not raised), then the result
CleanupApply ==
    /\ pc = "c_apply"
    /\ sshConfig' = IF loc.stale # {}
                    THEN cleanup_stale_ssh_hosts(sshConfig, loc.live)
                    ELSE sshConfig
    /\ \E failed \in SUBSET Range(loc.orphans) :
         /\ volumes' = [v \in VolIds |->
                          IF v \in Range(loc.orphans) \ failed
                          THEN [volumes[v] EXCEPT !.state = "deleted"]
                          ELSE volumes[v]]
         /\ loc' = [loc EXCEPT !.deleted =
                        {<<volumes[v].tagInst, v>> : v \in Range(loc.orphans) \ failed}]
         /\ calls' = calls \o [k \in 1..Len(loc.orphans) |->
                                 DeleteCall(loc.orphans[k], loc.orphans[k] \notin failed)]
         /\ out' = LET o == IF is_text(args.fmt)
                            THEN click_echo(out) ELSE emit(out, args.fmt)
                   IN  IF failed = {} THEN o ELSE warn(o, args.fmt, "delete_failed")
    /\ Return
    /\ UNCHANGED <<keyPairs, secGroups, instances, quotaRequests, args, steps,
                   start, runs>>

Cleanup == StartCleanup \/ CleanupEntry \/ CleanupConfirm \/ CleanupApply

\* ------------------------------------------------------ cli.quota_request
QuotaValues == {4, 8}

\* quota.QUOTA_FAMILIES: family -> quota type -> quota code
QUOTA_FAMILIES ==
    [family \in {"gvt", "p", "dl"} |->
        CASE family = "gvt" -> ("spot" :> "L-3819A6DF" @@ "on-demand" :> "L-DB2E81BA")
          [] family = "p"   -> ("spot" :> "L-7212CCBC" @@ "on-demand" :> "L-417A185B")
          [] family = "dl"  -> ("spot" :> "L-85EED4F7" @@ "on-demand" :> "L-6E869C2A")]

\* --type: click.Choice(["spot", "on-demand"])
QuotaTypes == {"spot", "on-demand"}

\* --desired-value is read once, after get_quota, and is drawn there
StartQuotaRequest ==
    /\ pc = "idle"
    /\ runs < MaxRuns
    /\ \E fmt \in Formats, yes \in BOOLEAN :
          args' = [NoArgs EXCEPT !.cmd = "quota request", !.fmt = fmt, !.yes = yes]
    /\ pc' = "q_entry"
    /\ runs' = runs + 1
    /\ loc' = NoLoc
    /\ calls' = <<>>
    /\ steps' = <<>>
    /\ out' = NoOut
    /\ result' = NoResult
    /\ start' = Persistent
    /\ UNCHANGED <<aws, sshConfig>>

\* a bug: a desired value equal to the current one is let through
desired_too_low_only_below(desired_value, current) == desired_value < current

\* if desired_value <= current["value"]: raise CLIError
desired_too_low(desired_value, current) == desired_value <= current

\* quota request, up to the confirmation prompt: the --yes check, get_quota
\* and the comparison of the desired with the current value
QuotaRequestEntry ==
    /\ pc = "q_entry"
    /\ IF requires_yes(args.fmt, args.yes)
       THEN /\ Raise("--yes is required")
            /\ UNCHANGED <<args, loc, calls, out>>
       ELSE \E desired \in QuotaValues, current \in QuotaValues,
               exc \in AwsExceptions \cup {"none"},
               family \in DOMAIN QUOTA_FAMILIES, quota_type \in QuotaTypes :
            IF exc = "ProfileNotFound"
            THEN /\ loc' = [loc EXCEPT !.raised = {exc}, !.escaped = exc]
                 /\ Raise(invoke(exc))
                 /\ UNCHANGED <<args, calls, out>>
            ELSE /\ calls' = Append(calls, Call("get_service_quota", <<>>))
                 /\ IF exc # "none"
                    THEN /\ loc' = [loc EXCEPT !.raised = {exc}, !.escaped = exc]
                         /\ Raise(invoke(exc))
                         /\ UNCHANGED <<args, out>>
                    ELSE /\ args' = [args EXCEPT !.desired = desired,
                                !.quota_code = QUOTA_FAMILIES[family][quota_type]]
                         /\ loc' = [loc EXCEPT !.current = current]
                         /\ IF desired_too_low(desired, current)
                            THEN /\ Raise("Desired value must be greater than current value")
                                 /\ UNCHANGED out
                            ELSE /\ out' = echo(out, args.fmt)
                                 /\ pc' = IF args.yes THEN "q_apply" ELSE "q_confirm"
                                 /\ UNCHANGED result
    /\ UNCHANGED <<aws, sshConfig, steps, start, runs>>

\* if not yes: click.confirm; "no" cancels the command
QuotaRequestConfirm ==
    /\ pc = "q_confirm"
    /\ out' = click_echo(out)
    /\ \E answer \in BOOLEAN :
         /\ loc' = [loc EXCEPT !.answer = IF answer THEN "yes" ELSE "no"]
         /\ IF answer
            THEN pc' = "q_apply" /\ UNCHANGED result
            ELSE Return
    /\ UNCHANGED <<aws, sshConfig, args, calls, steps, start, runs>>

\* request_quota_increase (a ClientError is raised, translated or not), then
\* the result
QuotaRequestApply ==
    /\ pc = "q_apply"
    /\ calls' = Append(calls, Call("request_service_quota_increase", <<args.desired>>))
    /\ \E code \in {"ok", "NoSuchResourceException", "ResourceAlreadyExistsException",
                    "IllegalArgumentException"} :
         IF code = "ok"
         THEN /\ quotaRequests' = quotaRequests + 1
              /\ out' = IF is_text(args.fmt) THEN click_echo(out) ELSE emit(out, args.fmt)
              /\ Return
         ELSE /\ Raise(code)
              /\ UNCHANGED <<quotaRequests, out>>
    /\ UNCHANGED <<keyPairs, secGroups, instances, volumes, sshConfig, args, loc,
                   steps, start, runs>>

QuotaRequest ==
    \/ StartQuotaRequest \/ QuotaRequestEntry \/ QuotaRequestConfirm
    \/ QuotaRequestApply

\* the process of the finished command is gone
Exit ==
    /\ pc = "done"
    /\ pc' = "idle"
    /\ args' = NoArgs
    /\ loc' = NoLoc
    /\ calls' = <<>>
    /\ steps' = <<>>
    /\ out' = NoOut
    /\ result' = NoResult
    /\ start' = Persistent
    /\ UNCHANGED <<aws, sshConfig, runs>>

\* ------------------------------------------------------------------ AWS
\* What AWS does on its own.  A running command sees the account only
\* through the calls it makes (the waiters stand for the changes it waits
\* for), so these steps are taken between commands.

\* an instance that is shutting down reaches "terminated"; the volumes
\* attached to it are detached
AwsSettle ==
    /\ pc = "idle"
    /\ \E i \in InstIds :
         /\ instances[i].state = "shutting-down"
         /\ instances' = [instances EXCEPT ![i].state = "terminated"]
         /\ volumes' = [v \in VolIds |->
                          IF volumes[v].attached = i /\ volumes[v].state = "in-use"
                          THEN [volumes[v] EXCEPT !.state = "available",
                                                  !.attached = NoInst]
                          ELSE volumes[v]]
    /\ start' = [start EXCEPT !.instances = instances', !.volumes = volumes']
    /\ UNCHANGED <<keyPairs, secGroups, quotaRequests, sshConfig, pc, args, loc,
                   calls, steps, out, result, runs>>

\* an instance is shut down from outside the tool (a spot interruption, the
\* console)
AwsInterrupt ==
    /\ pc = "idle"
    /\ \E i \in ToolInsts :
         /\ instances[i].state \in {"pending", "running"}
         /\ instances' = [instances EXCEPT ![i].state = "shutting-down"]
    /\ start' = [start EXCEPT !.instances = instances']
    /\ UNCHANGED <<keyPairs, secGroups, volumes, quotaRequests, sshConfig, pc, args,
                   loc, calls, steps, out, result, runs>>

Aws == AwsSettle \/ AwsInterrupt

Next == Launch \/ Terminate \/ Cleanup \/ QuotaRequest \/ Exit \/ Aws

Spec == Init /\ [][Next]_vars

\* ----------------------------------- ec2.find_orphan_ebs_volumes, alone
\* the volume descriptions describe_volumes can hold
VolRecords ==
    [state : {"available", "in-use"}, az : {"us-west-2a"},
     tagInst : {NoInst} \cup InstIds, tagCreatedBy : BOOLEAN, attached : {NoInst}]

\* any volumes in the account, any set of live instance IDs
InitOrphans ==
    /\ keyPairs = {}
    /\ secGroups = {}
    /\ instances = [i \in InstIds |->
                      [state |-> "absent", tagged |-> FALSE, az |-> "none"]]
    /\ volumes \in [VolIds -> VolRecords]
    /\ quotaRequests = 0
    /\ sshConfig = [i \in InstIds |-> 0]
    /\ pc = "idle"
    /\ args = [NoArgs EXCEPT !.cmd = "find_orphan_ebs_volumes"]
    /\ \E live \in SUBSET InstIds : loc = [NoLoc EXCEPT !.live = live]
    /\ calls = <<>>
    /\ steps = <<>>
    /\ out = NoOut
    /\ result = NoResult
    /\ start = [keyPairs |-> {}, secGroups |-> {}, instances |-> instances,
                volumes |-> volumes, quotaRequests |-> 0, sshConfig |-> sshConfig]
    /\ runs = 0

\* one call of find_orphan_ebs_volumes(ec2, tag_value, loc.live); the answer
\* of describe_volumes (1) or its ClientError (0) is kept in calls
FindOrphans ==
    /\ pc = "idle"
    /\ args.cmd = "find_orphan_ebs_volumes"
    /\ \E client_error \in BOOLEAN :
         /\ calls' = Append(calls, Call("describe_volumes",
                                        <<IF client_error THEN 0 ELSE 1>>))
         /\ loc' = [loc EXCEPT !.orphans =
                        SetToSeq(orphans_or_empty(volumes, loc.live, client_error))]
    /\ pc' = "done"
    /\ UNCHANGED <<aws, sshConfig, args, steps, out, result, start, runs>>

SpecOrphans == InitOrphans /\ [][FindOrphans]_vars

\* -------------------------------------------------- ssh.wait_for_ssh, alone
\* wait_for_ssh(host, user, key_path, retries, delay), at the top of its loop
InitWaitForSsh ==
    /\ keyPairs = {}
    /\ secGroups = {}
    /\ instances = [i \in InstIds |->
                      [state |-> "absent", tagged |-> FALSE, az |-> "none"]]
    /\ volumes = [v \in VolIds |->
                    [state |-> "absent", az |-> "none", tagInst |-> NoInst,
                     tagCreatedBy |-> FALSE, attached |-> NoInst]]
    /\ quotaRequests = 0
    /\ sshConfig = [i \in InstIds |-> 0]
    /\ pc = "w_loop"
    /\ \E retries \in (0..MaxRetries) \cup {DefaultRetries}, delay \in {5, DefaultDelay},
          ssh_port \in Ports :
          args = [NoArgs EXCEPT !.cmd = "wait_for_ssh", !.retries = retries,
                                !.delay = delay, !.ssh_port = ssh_port]
    /\ loc = NoLoc
    /\ calls = <<>>
    /\ steps = <<>>
    /\ out = NoOut
    /\ result = NoResult
    /\ start = [keyPairs |-> {}, secGroups |-> {}, instances |-> instances,
                volumes |-> volumes, quotaRequests |-> 0, sshConfig |-> sshConfig]
    /\ runs = 0

\* a bug: the sleep grows with the attempt number
sleep_time_backoff(delay, attempt) == delay * attempt

\* time.sleep(delay) after a failed attempt
sleep_time(delay, attempt) == delay

\* the port of socket.create_connection((host, 22)) and of the ssh command,
\* which is given no -p option
WaitForSshPort == 22

\* one iteration of the for loop: the TCP connection to port 22, then the
\* ssh 'echo ok' command; return True when both succeed, else report, sleep
\* and go on.  args.ssh_port is the port launch waits for (--ssh-port); the
\* function has no parameter for it
WaitForSshAttempt ==
    /\ pc = "w_loop"
    /\ args.cmd = "wait_for_ssh"
    /\ loc.attempt < args.retries
    /\ \E tcp_ok \in BOOLEAN, ssh_ok \in BOOLEAN :
         IF tcp_ok /\ ssh_ok
         THEN /\ loc' = [loc EXCEPT !.attempt = @ + 1, !.ret = "True",
                            !.probe_ports = @ \cup {WaitForSshPort},
                            !.ssh_cmd_ports = @ \cup {WaitForSshPort}]
              /\ pc' = "done"
         ELSE /\ loc' = [loc EXCEPT !.attempt = @ + 1,
                            !.slept = @ + sleep_time(args.delay, loc.attempt + 1),
                            !.probe_ports = @ \cup {WaitForSshPort},
                            !.ssh_cmd_ports = IF tcp_ok
                                              THEN @ \cup {WaitForSshPort} ELSE @]
              /\ pc' = "w_loop"
    /\ out' = click_echo(out)
    /\ UNCHANGED <<aws, sshConfig, args, calls, steps, result, start, runs>>

\* the range is exhausted: return False
WaitForSshGiveUp ==
    /\ pc = "w_loop"
    /\ args.cmd = "wait_for_ssh"
    /\ loc.attempt >= args.retries
    /\ loc' = [loc EXCEPT !.ret = "False"]
    /\ pc' = "done"
    /\ UNCHANGED <<aws, sshConfig, args, calls, steps, out, result, start, runs>>

WaitForSsh == WaitForSshAttempt \/ WaitForSshGiveUp

\* the calls of an attempt block for a bounded time, so the loop keeps going
SpecWaitForSsh == InitWaitForSsh /\ [][WaitForSsh]_vars /\ WF_vars(WaitForSsh)

\* ------------------ cli.terminate and cli.cleanup, after launches with volumes
\* the account after every instance the tool can create has been launched,
\* some of them with a data volume of their own: the instances are running
\* and have their SSH aliases, a volume with an owner is tagged for that
\* instance and attached to it, the other volumes are the user's
InitLaunched ==
    /\ keyPairs = import_key_pair({})
    /\ secGroups = ensure_security_group({}, GroupName, DefaultPort)
    /\ \E owner \in [VolIds -> ToolInsts \cup {NoInst}] :
          /\ \A v, w \in VolIds : (owner[v] = owner[w] /\ owner[v] # NoInst) => v = w
          /\ \E v \in VolIds : owner[v] # NoInst
          /\ volumes = [v \in VolIds |->
                          [state |-> IF owner[v] = NoInst THEN "available" ELSE "in-use",
                           az |-> "us-west-2a",
                           tagInst |-> owner[v], tagCreatedBy |-> owner[v] # NoInst,
                           attached |-> owner[v]]]
    /\ instances = [i \in InstIds |->
                      [state |-> "running", tagged |-> i # ForeignInst,
                       az |-> "us-west-2a"]]
    /\ quotaRequests = 0
    /\ sshConfig = [i \in InstIds |-> IF i = ForeignInst THEN 0 ELSE i]
    /\ pc = "idle"
    /\ args = NoArgs
    /\ loc = NoLoc
    /\ calls = <<>>
    /\ steps = <<>>
    /\ out = NoOut
    /\ result = NoResult
    /\ start = Persistent
    /\ runs = 0

\* terminate and cleanup runs on that account; between them the instances
\* that are shutting down reach "terminated"
SpecTerminate == InitLaunched /\ [][Terminate \/ Cleanup \/ Exit \/ AwsSettle]_vars

\* ------------------------------------------- ec2.ensure_security_group, alone
\* groups the account can hold before the tool is used: one of the tool's
\* name in another VPC, and a group of the user in the default VPC
OtherGroups ==
    {[id |-> "sg-other-vpc", name |-> GroupName, vpc |-> "vpc-other",
      ports |-> {DefaultPort}],
     [id |-> "sg-user", name |-> "user-group", vpc |-> DefaultVpc,
      ports |-> {DefaultPort}]}

\* an account without a group of the tool's name in the default VPC;
\* ensure_security_group is then called up to MaxRuns times with that name
InitSg ==
    /\ keyPairs = {}
    /\ secGroups \in SUBSET OtherGroups
    /\ instances = [i \in InstIds |->
                      [state |-> "absent", tagged |-> FALSE, az |-> "none"]]
    /\ volumes = [v \in VolIds |->
                    [state |-> "absent", az |-> "none", tagInst |-> NoInst,
                     tagCreatedBy |-> FALSE, attached |-> NoInst]]
    /\ quotaRequests = 0
    /\ sshConfig = [i \in InstIds |-> 0]
    /\ pc = "idle"
    /\ args = [NoArgs EXCEPT !.cmd = "ensure_security_group"]
    /\ loc = NoLoc
    /\ calls = <<>>
    /\ steps = <<>>
    /\ out = NoOut
    /\ result = NoResult
    /\ start = [keyPairs |-> {}, secGroups |-> secGroups, instances |-> instances,
                volumes |-> volumes, quotaRequests |-> 0, sshConfig |-> sshConfig]
    /\ runs = 0

\* one call ensure_security_group(ec2, name, tag_value, ssh_port): no default
\* VPC is a CLIError; a ClientError of authorize_security_group_ingress
\* leaves the group that was just created
EnsureSg ==
    /\ pc = "idle"
    /\ args.cmd = "ensure_security_group"
    /\ runs < MaxRuns
    /\ runs' = runs + 1
    /\ \E ssh_port \in Ports, default_vpc \in BOOLEAN, authorized \in BOOLEAN :
         /\ args' = [args EXCEPT !.ssh_port = ssh_port]
         /\ IF ~default_vpc
            THEN /\ calls' = <<Call("describe_vpcs", <<>>)>>
                 /\ Raise("No default VPC found")
                 /\ loc' = NoLoc
                 /\ UNCHANGED secGroups
            ELSE IF existing_groups(secGroups, GroupName) # {}
            THEN /\ calls' = <<Call("describe_vpcs", <<>>),
                               Call("describe_security_groups", <<>>)>>
                 /\ loc' = [NoLoc EXCEPT !.sg_id =
                                returned_group_id(secGroups, GroupName)]
                 /\ Return
                 /\ UNCHANGED secGroups
            ELSE /\ calls' = <<Call("describe_vpcs", <<>>),
                               Call("describe_security_groups", <<>>),
                               Call("create_security_group", <<>>),
                               Call("authorize_security_group_ingress", <<ssh_port>>)>>
                 /\ IF authorized
                    THEN /\ secGroups' = ensure_security_group(secGroups, GroupName,
                                                               ssh_port)
                         /\ loc' = [NoLoc EXCEPT !.sg_id = NewGroupId]
                         /\ Return
                    ELSE /\ secGroups' = create_security_group(secGroups, GroupName)
                         /\ loc' = NoLoc
                         /\ Raise("ClientError")
    /\ out' = click_echo(out)
    /\ UNCHANGED <<keyPairs, instances, volumes, quotaRequests, sshConfig, steps,
                   start>>

\* the caller goes on to its next call
EnsureSgNext ==
    /\ pc = "done"
    /\ args.cmd = "ensure_security_group"
    /\ pc' = "idle"
    /\ UNCHANGED <<aws, sshConfig, args, loc, calls, steps, out, result, start, runs>>

SpecSg == InitSg /\ [][EnsureSg \/ EnsureSgNext]_vars

\* ------------------------------------ two launch runs at the same time
\* Two launch processes in steps 2 and 3, each API call one step.  In this
\* specification pc, args, loc, calls and result hold one value per process.
Procs == {"run-a", "run-b"}

\* both runs are about to call import_key_pair(ec2, key_name, key_path):
\* same key name, same group name, any --ssh-port each, nothing exists yet
InitConcurrent ==
    /\ keyPairs = {}
    /\ secGroups \in SUBSET OtherGroups
    /\ instances = [i \in InstIds |->
                      [state |-> "absent", tagged |-> FALSE, az |-> "none"]]
    /\ volumes = [v \in VolIds |->
                    [state |-> "absent", az |-> "none", tagInst |-> NoInst,
                     tagCreatedBy |-> FALSE, attached |-> NoInst]]
    /\ quotaRequests = 0
    /\ sshConfig = [i \in InstIds |-> 0]
    /\ pc = [p \in Procs |-> "k_describe"]
    /\ \E port \in [Procs -> Ports] :
          args = [p \in Procs |-> [NoArgs EXCEPT !.cmd = "launch", !.ssh_port = port[p]]]
    /\ loc = [p \in Procs |-> [key_found |-> "none", sg_found |-> "none",
                                sg_id |-> "none"]]
    /\ calls = [p \in Procs |-> <<>>]
    /\ steps = <<>>
    /\ out = NoOut
    /\ result = [p \in Procs |-> NoResult]
    /\ start = Persistent
    /\ runs = 0

\* a bug: the key is imported whether or not describe_key_pairs found it
after_describe_key_pairs_always_import(found) == "k_import"

\* import_key_pair: return when describe_key_pairs found the key, go on to
\* ec2_client.import_key_pair when it raised InvalidKeyPair.NotFound
after_describe_key_pairs(found) == IF found THEN "s_describe" ELSE "k_import"

\* describe_key_pairs(KeyNames=[key_name])
KeyDescribe(p) ==
    /\ pc[p] = "k_describe"
    /\ calls' = [calls EXCEPT ![p] = Append(@, Call("describe_key_pairs", <<>>))]
    /\ loc' = [loc EXCEPT ![p].key_found = IF KeyName \in keyPairs THEN "yes" ELSE "no"]
    /\ pc' = [pc EXCEPT ![p] = after_describe_key_pairs(KeyName \in keyPairs)]
    /\ UNCHANGED <<aws, sshConfig, args, steps, out, result, start, runs>>

\* ec2_client.import_key_pair(KeyName=key_name, ...): AWS refuses a name
\* that exists (InvalidKeyPair.Duplicate), and the ClientError leaves launch
KeyImport(p) ==
    /\ pc[p] = "k_import"
    /\ calls' = [calls EXCEPT ![p] = Append(@, Call("import_key_pair", <<>>))]
    /\ IF KeyName \in keyPairs
       THEN /\ pc' = [pc EXCEPT ![p] = "done"]
            /\ result' = [result EXCEPT ![p] =
                              [exit |-> "error", err |-> "InvalidKeyPair.Duplicate"]]
            /\ UNCHANGED keyPairs
       ELSE /\ keyPairs' = import_key_pair(keyPairs)
            /\ pc' = [pc EXCEPT ![p] = "s_describe"]
            /\ UNCHANGED result
    /\ UNCHANGED <<secGroups, instances, volumes, quotaRequests, sshConfig, args,
                   loc, steps, out, start, runs>>

\* ensure_security_group: describe_vpcs, then describe_security_groups; an
\* existing group is returned as it is
SgDescribe(p) ==
    /\ pc[p] = "s_describe"
    /\ calls' = [calls EXCEPT ![p] = @ \o <<Call("describe_vpcs", <<>>),
                                            Call("describe_security_groups", <<>>)>>]
    /\ IF existing_groups(secGroups, GroupName) # {}
       THEN /\ loc' = [loc EXCEPT ![p].sg_found = "yes",
                                  ![p].sg_id = returned_group_id(secGroups, GroupName)]
            /\ pc' = [pc EXCEPT ![p] = "done"]
            /\ result' = [result EXCEPT ![p] = [exit |-> "ok", err |-> "none"]]
       ELSE /\ loc' = [loc EXCEPT ![p].sg_found = "no"]
            /\ pc' = [pc EXCEPT ![p] = "s_create"]
            /\ UNCHANGED result
    /\ UNCHANGED <<aws, sshConfig, args, steps, out, start, runs>>

\* create_security_group(GroupName=name, VpcId=vpc_id): AWS refuses a name
\* that exists in the VPC (InvalidGroup.Duplicate)
SgCreate(p) ==
    /\ pc[p] = "s_create"
    /\ calls' = [calls EXCEPT ![p] = Append(@, Call("create_security_group", <<>>))]
    /\ IF existing_groups(secGroups, GroupName) # {}
       THEN /\ pc' = [pc EXCEPT ![p] = "done"]
            /\ result' = [result EXCEPT ![p] =
                              [exit |-> "error", err |-> "InvalidGroup.Duplicate"]]
            /\ UNCHANGED <<secGroups, loc>>
       ELSE /\ secGroups' = create_security_group(secGroups, GroupName)
            /\ loc' = [loc EXCEPT ![p].sg_id = NewGroupId]
            /\ pc' = [pc EXCEPT ![p] = "s_authorize"]
            /\ UNCHANGED result
    /\ UNCHANGED <<keyPairs, instances, volumes, quotaRequests, sshConfig, args,
                   steps, out, start, runs>>

\* authorize_security_group_ingress for the run's ssh_port, then return
SgAuthorize(p) ==
    /\ pc[p] = "s_authorize"
    /\ calls' = [calls EXCEPT ![p] =
                    Append(@, Call("authorize_security_group_ingress",
                                   <<args[p].ssh_port>>))]
    /\ secGroups' = authorize_security_group_ingress(secGroups, loc[p].sg_id,
                                                     args[p].ssh_port)
    /\ pc' = [pc EXCEPT ![p] = "done"]
    /\ result' = [result EXCEPT ![p] = [exit |-> "ok", err |-> "none"]]
    /\ UNCHANGED <<keyPairs, instances, volumes, quotaRequests, sshConfig, args,
                   loc, steps, out, start, runs>>

NextConcurrent ==
    \E p \in Procs :
        KeyDescribe(p) \/ KeyImport(p) \/ SgDescribe(p) \/ SgCreate(p) \/ SgAuthorize(p)

SpecConcurrent == InitConcurrent /\ [][NextConcurrent]_vars

\* ================================================================ claims
StepNames == [k \in 1..Len(steps) |-> steps[k].name]

HasCall(op) == \E k \in 1..Len(calls) : calls[k].op = op

\* what the running command has changed so far
Unchanged ==
    /\ keyPairs = start.keyPairs
    /\ secGroups = start.secGroups
    /\ instances = start.instances
    /\ volumes = start.volumes
    /\ quotaRequests = start.quotaRequests
    /\ sshConfig = start.sshConfig

\* ---- C1
\* the place of a step in the order the claim lists: waiting for the
\* instance (ready, SSH) comes before the setup script, the setup script
\* before the data volume, the data volume before the alias
ClaimedRank(name) ==
    CASE name = "ami"         -> 1
      [] name = "key"         -> 2
      [] name = "sg"          -> 3
      [] name = "launch"      -> 4
      [] name = "wait_ready"  -> 5
      [] name = "wait_ssh"    -> 5
      [] name = "setup"       -> 6
      [] name = "ebs_prepare" -> 7
      [] name = "ebs_attach"  -> 7
      [] name = "mount"       -> 7
      [] name = "alias"       -> 8

\* the place of a step in the order of the body of launch
CodeRank(name) ==
    CASE name = "ami"         -> 1
      [] name = "key"         -> 2
      [] name = "sg"          -> 3
      [] name = "launch"      -> 4
      [] name = "wait_ready"  -> 5
      [] name = "ebs_prepare" -> 6
      [] name = "ebs_attach"  -> 7
      [] name = "wait_ssh"    -> 8
      [] name = "setup"       -> 9
      [] name = "mount"       -> 10
      [] name = "alias"       -> 11

MandatorySteps == {"ami", "key", "sg", "launch", "wait_ready", "wait_ssh", "alias"}

\* C1 as claimed: the steps of a launch run happen in the listed order (AMI,
\* key, security group, instance, wait until reachable, setup script, data
\* volume, alias) and a step begins only after the previous one succeeded
C1_ClaimedOrder ==
    \A i, j \in 1..Len(steps) :
        i < j => /\ ClaimedRank(steps[i].name) <= ClaimedRank(steps[j].name)
                 /\ steps[i].res = "ok"

\* C1 as amended: the steps of a launch run happen in the order AMI lookup,
\* key import, security group, instance launch, wait for the instance,
\* data-volume creation/validation, attachment, wait for SSH, setup script,
\* mount, alias; none of the mandatory steps is skipped; a step begins only
\* after the previous one returned without raising, and only the setup
\* script and the mount may have returned a failure
C1_LaunchOrder ==
    /\ \A i, j \in 1..Len(steps) :
          i < j => /\ CodeRank(steps[i].name) < CodeRank(steps[j].name)
                   /\ steps[i].res # "raised"
                   /\ steps[i].res = "failed" => steps[i].name \in {"setup", "mount"}
    /\ \A j \in 1..Len(steps) : \A m \in MandatorySteps :
          CodeRank(m) < CodeRank(steps[j].name) =>
              \E i \in 1..(j - 1) : steps[i].name = m

\* a launch that went through all eleven steps although the setup script
\* failed
C1_Witness ==
    /\ pc = "done"
    /\ Len(steps) = 11
    /\ \E k \in 1..Len(steps) : steps[k] = [name |-> "setup", res |-> "failed"]
    /\ steps[Len(steps)].name = "alias"

\* ---- C2
\* C2: launch --dry-run creates or modifies no AWS resource and adds no SSH
\* config entry, from start to exit
C2_DryRunChangesNothing ==
    (args.cmd = "launch" /\ args.dry_run) => Unchanged

\* ---- C3
\* C3: terminate terminates only instances created by aws-bootstrap: every
\* instance that terminate_instances has shut down for it, whether the
\* target came from the tag query or from the command line, carries the
\* created-by tag
C3_TerminatesOnlyTagged ==
    \A k \in 1..Len(calls) :
        calls[k].op = "terminate_instances" =>
            \A i \in Range(calls[k].arg) :
                instances[i].state # start.instances[i].state => instances[i].tagged

\* ---- C4
\* C4: with --keep-ebs, terminate never waits on or deletes a volume and
\* changes no volume; once terminate_instances returned, every target is
\* shutting down or terminated, has no SSH config entry, and every data
\* volume discovered for the targets still exists
C4_KeepEbsPreserves ==
    (args.cmd = "terminate" /\ args.keep_ebs) =>
        /\ ~HasCall("wait_volume_available")
        /\ ~HasCall("delete_volume")
        /\ volumes = start.volumes
        /\ loc.changes # <<>> =>
              /\ \A t \in Range(loc.targets) :
                    /\ instances[t].state \in {"shutting-down", "terminated"}
                    /\ sshConfig[t] = 0
              /\ \A k \in 1..Len(loc.ebs) :
                    volumes[loc.ebs[k][2]].state \in {"available", "in-use"}

\* terminate --keep-ebs has exited after terminating an instance with an
\* attached data volume and an SSH alias
C4_Witness ==
    /\ pc = "done"
    /\ args.cmd = "terminate"
    /\ args.keep_ebs
    /\ result.exit = "ok"
    /\ \E k \in 1..Len(loc.ebs) :
          /\ start.volumes[loc.ebs[k][2]].state = "in-use"
          /\ start.sshConfig[loc.ebs[k][1]] # 0
          /\ loc.ebs[k][1] \in Range(loc.changes)

\* ---- C5
\* the data volumes tagged for instance t when the command started
TaggedFor(t) == find_ebs_volumes_for_instance(start.volumes, t)

\* delete_volume is called for a volume only after it was discovered, after
\* terminate_instances was issued, and after its waiter succeeded
DeleteOrder ==
    \A k \in 1..Len(calls) :
        calls[k].op = "delete_volume" =>
            LET vid == calls[k].arg[1]
            IN  /\ \E t \in 1..(k - 1) :
                      /\ calls[t].op = "terminate_instances"
                      /\ \E d \in 1..(t - 1) :
                            /\ calls[d].op = "describe_volumes"
                            /\ vid \in TaggedFor(calls[d].arg[1])
                /\ \E w \in 1..(k - 1) : calls[w] = WaitCall(vid, TRUE)

Unresolvable ==
    \E k \in 1..Len(args.ids) :
        resolve_instance_id(start.sshConfig, args.ids[k]) = NoInst

\* C6: when a target of terminate cannot be resolved, or the user answers
\* no to the prompt, terminate ends without terminating an instance,
\* removing an SSH config entry or deleting a volume
C6_AbortedTerminate ==
    (args.cmd = "terminate" /\ (Unresolvable \/ loc.answer = "no")) =>
        /\ Unchanged
        /\ ~HasCall("terminate_instances")
        /\ ~HasCall("delete_volume")
        /\ pc \in {"t_entry", "t_confirm", "done"}
        /\ (pc = "done" /\ Unresolvable) => result.exit = "error"
        /\ (pc = "done" /\ loc.answer = "no") => result.exit = "ok"

\* the user has answered no to terminating a live instance that has an SSH
\* alias
C6_Witness ==
    /\ pc = "done"
    /\ args.cmd = "terminate"
    /\ loc.answer = "no"
    /\ \E t \in Range(loc.targets) :
          instances[t].state = "running" /\ sshConfig[t] # 0

\* ---- C7
\* the command needs --yes: structured output, no --yes, and it is
\* terminate, quota request, or cleanup without --dry-run
NeedsYes ==
    /\ ~is_text(args.fmt)
    /\ ~args.yes
    /\ \/ args.cmd \in {"terminate", "quota request"}
       \/ args.cmd = "cleanup" /\ ~args.dry_run

C8_StdoutOnlyEmit ==
    ~is_text(args.fmt) => ~out.progress

\* ---- C9
\* C9: launch mounts the data volume with format_volume = true if and only
\* if this run created the volume via --ebs-storage; a volume given via
\* --ebs-volume-id is never formatted
C9_FormatIffCreated ==
    \A k \in 1..Len(calls) :
        calls[k].op = "mount_ebs_volume" =>
            LET vid == calls[k].arg[1]
                fmt == calls[k].arg[2]
            IN  /\ fmt = 1 <=> /\ args.ebs_storage # NoSize
                               /\ \E c \in 1..(k - 1) :
                                     calls[c] = Call("create_volume", <<vid>>)
                /\ args.ebs_volume_id # NoVol => fmt = 0
                /\ vid = args.ebs_volume_id => fmt = 0

\* launch has mounted the existing volume given via --ebs-volume-id
C9_Witness ==
    /\ args.cmd = "launch"
    /\ args.ebs_volume_id # NoVol
    /\ \E k \in 1..Len(calls) :
          calls[k] = Call("mount_ebs_volume", <<args.ebs_volume_id, 0>>)

\* ---- C10
\* C10: launch with both --ebs-storage and --ebs-volume-id fails with
\* "mutually exclusive" before any AWS call and before any change of local
\* state
C10_MutuallyExclusive ==
    (args.cmd = "launch" /\ args.ebs_storage # NoSize /\ args.ebs_volume_id # NoVol) =>
        /\ calls = <<>>
        /\ Unchanged
        /\ pc \in {"l_entry", "done"}
        /\ pc = "done" => result = [exit |-> "error", err |-> "mutually exclusive"]

\* launch --ebs-storage 0 --ebs-volume-id <existing volume> has failed
C10_Witness ==
    /\ pc = "done"
    /\ args.cmd = "launch"
    /\ args.ebs_storage = 0
    /\ args.ebs_volume_id = UserVol
    /\ result.err = "mutually exclusive"

\* ---- C11
\* the volume given by --ebs-volume-id exists, is available and is in the
\* availability zone of the launched instance
Attachable(vid, az) ==
    /\ vid \in VolIds
    /\ start.volumes[vid].state = "available"
    /\ start.volumes[vid].az = az

\* the CLIError the claim names for a volume that is not attachable: not
\* found, then wrong state, then wrong availability zone
ClaimedError(vid, az) ==
    IF vid \notin VolIds \/ start.volumes[vid].state \in {"absent", "deleted"}
    THEN "EBS volume not found"
    ELSE IF start.volumes[vid].state # "available"
    THEN "EBS volume must be available"
    ELSE "EBS volume in another AZ"

\* launch was given --ebs-volume-id and has made the call op on that volume
OnGivenVolume(op) ==
    \E k \in 1..Len(calls) :
        calls[k].op = op /\ calls[k].arg[1] = args.ebs_volume_id

\* launch has validated the given volume and gone on
Validated == \E k \in 1..Len(steps) : steps[k] = [name |-> "ebs_prepare", res |-> "ok"]

\* launch has stopped in the validation of the given volume
Rejected == \E k \in 1..Len(steps) : steps[k] = [name |-> "ebs_prepare", res |-> "raised"]

\* launch --ebs-volume-id tags and attaches the volume only if it exists, is
\* available and is in the instance's availability zone, and then it does
\* tag it; a rejected volume is neither tagged nor attached
TagsOnlyAccepted ==
    /\ (OnGivenVolume("create_tags") \/ OnGivenVolume("attach_volume")) =>
          /\ Attachable(args.ebs_volume_id, loc.az)
          /\ OnGivenVolume("describe_volumes")
          /\ Validated
    /\ Validated => /\ Attachable(args.ebs_volume_id, loc.az)
                    /\ OnGivenVolume("create_tags")
    /\ Rejected =>
          /\ pc = "done"
          /\ result.exit = "error"
          /\ ~OnGivenVolume("create_tags")
          /\ ~OnGivenVolume("attach_volume")
          /\ volumes = start.volumes

C12_OrphansExact ==
    (args.cmd = "find_orphan_ebs_volumes" /\ pc = "done") =>
        LET returned == Range(loc.orphans)
        IN  /\ calls[1].arg = <<1>> =>
                  \A v \in VolIds :
                      v \in returned <=> /\ volumes[v].tagCreatedBy
                                         /\ volumes[v].state = "available"
                                         /\ volumes[v].tagInst # NoInst
                                         /\ volumes[v].tagInst \notin loc.live
            /\ \A v \in returned : /\ volumes[v].state # "in-use"
                                   /\ volumes[v].tagInst # NoInst
            /\ calls[1].arg = <<0>> => loc.orphans = <<>>
            /\ Len(loc.orphans) = Cardinality(returned)

\* one volume is returned as an orphan while an in-use volume whose tagged
\* instance is not live is not
C12_Witness ==
    /\ args.cmd = "find_orphan_ebs_volumes"
    /\ pc = "done"
    /\ \E v, w \in VolIds :
          /\ v \in Range(loc.orphans)
          /\ w \notin Range(loc.orphans)
          /\ volumes[w].state = "in-use"
          /\ volumes[w].tagCreatedBy
          /\ volumes[w].tagInst # NoInst
          /\ volumes[w].tagInst \notin loc.live

\* ---- C13
\* C13: cleanup removes an SSH config entry only if the instance it refers
\* to is terminated or no longer exists; the entry of an instance that is
\* pending, running, stopping, stopped or shutting-down is never removed,
\* whatever --region the command is run with
C13_RemovesOnlyTerminated ==
    args.cmd = "cleanup" =>
        \A i \in InstIds :
            (start.sshConfig[i] # 0 /\ sshConfig[i] = 0) =>
                instances[i].state \notin LiveStates

\* ---- C14
\* the instances that are live in the region cleanup was run with
LiveInRegion ==
    {i \in InstIds : /\ RegionOf(start.instances[i].az) = args.region
                     /\ start.instances[i].tagged
                     /\ start.instances[i].state \in LiveStates}

\* the SSH config entries that are stale for this run of cleanup
StaleAtStart == {i \in InstIds : start.sshConfig[i] # 0 /\ i \notin LiveInRegion}

\* the orphan volumes for this run of cleanup: none without --include-ebs
\* or when describe_volumes failed
OrphansAtStart ==
    IF ~args.include_ebs \/ ~(\E k \in 1..Len(calls) :
                                 calls[k] = Call("describe_volumes", <<1>>))
    THEN {}
    ELSE {v \in VolIds : /\ RegionOf(start.volumes[v].az) = args.region
                         /\ start.volumes[v].tagCreatedBy
                         /\ start.volumes[v].state = "available"
                         /\ start.volumes[v].tagInst # NoInst
                         /\ start.volumes[v].tagInst \notin LiveInRegion}

\* the volumes cleanup has passed to delete_volume
DeleteAttempts ==
    {v \in VolIds : \E k \in 1..Len(calls) :
        calls[k].op = "delete_volume" /\ calls[k].arg[1] = v}

\* cleanup has gone through its removal step
Applied ==
    /\ pc = "done"
    /\ result.exit = "ok"
    /\ ~args.dry_run
    /\ loc.answer # "no"
    /\ (loc.stale # {} \/ loc.orphans # <<>>)

\* C14: cleanup --dry-run removes no SSH config entry and deletes no volume
\* (also with --include-ebs), and the stale entries and orphan volumes it
\* reports are the ones a run without --dry-run on the same state acts on
C14_DryRunReportsOnly ==
    args.cmd = "cleanup" =>
        /\ args.dry_run =>
              /\ Unchanged
              /\ DeleteAttempts = {}
              /\ pc \in {"c_entry", "done"}
              /\ pc = "done" => /\ result.exit = "ok"
                                /\ loc.stale = StaleAtStart
                                /\ Range(loc.orphans) = OrphansAtStart
        /\ Applied =>
              /\ {i \in InstIds : start.sshConfig[i] # 0 /\ sshConfig[i] = 0} = StaleAtStart
              /\ DeleteAttempts = OrphansAtStart

\* cleanup --dry-run --include-ebs has reported a stale entry and an orphan
\* volume and left both in place
C14_Witness ==
    /\ pc = "done"
    /\ args.cmd = "cleanup"
    /\ args.dry_run
    /\ args.include_ebs
    /\ loc.stale # {}
    /\ loc.orphans # <<>>
    /\ \A i \in loc.stale : sshConfig[i] # 0
    /\ \A k \in 1..Len(loc.orphans) : volumes[loc.orphans[k]].state = "available"

\* ---- C15
\* the error code of the last run_instances call of this launch ("none"
\* before the first call)
LastRunCode ==
    IF loc.run_codes = <<>> THEN "none" ELSE loc.run_codes[Len(loc.run_codes)]

\* C15: when run_instances fails with MaxSpotInstanceCountExceeded,
\* launch_instance raises a CLIError 'Spot instance quota exceeded', when it
\* fails with VcpuLimitExceeded one saying 'On-demand vCPU quota exceeded',
\* on the first attempt and on the on-demand retry, and no instance is
\* returned
C15_QuotaErrors ==
    args.cmd = "launch" =>
        /\ LastRunCode = "MaxSpotInstanceCountExceeded" =>
              result = [exit |-> "error", err |-> "Spot instance quota exceeded"]
        /\ LastRunCode = "VcpuLimitExceeded" =>
              result = [exit |-> "error", err |-> "On-demand vCPU quota exceeded"]
        /\ LastRunCode \in {"MaxSpotInstanceCountExceeded", "VcpuLimitExceeded"} =>
              /\ pc = "done"
              /\ loc.instance_id = NoInst
              /\ instances = start.instances
              /\ Len(steps) = 4
        /\ Len(loc.run_codes) = 2 =>
              /\ loc.run_codes[1] \in {"InsufficientInstanceCapacity", "SpotMaxPriceTooLow"}
              /\ \E k \in 1..(Len(calls) - 1) :
                    calls[k] = RunCall(TRUE) /\ calls[k + 1] = RunCall(FALSE)

\* the on-demand retry of a spot launch has failed with VcpuLimitExceeded
C15_Witness ==
    /\ pc = "done"
    /\ Len(loc.run_codes) = 2
    /\ loc.run_codes[2] = "VcpuLimitExceeded"
    /\ result.err = "On-demand vCPU quota exceeded"

\* ---- C16
\* C16: the quota-exceeded error that launch_instance raises for
\* MaxSpotInstanceCountExceeded includes a hint that refers the user to
\* README.md
C16_HintNamesReadme ==
    (args.cmd = "launch" /\ LastRunCode = "MaxSpotInstanceCountExceeded") =>
        "README.md" \in loc.hint

\* ---- C17
\* the human-readable message the claim promises for an exception, the
\* exception itself for a ClientError with any other code
ClaimedMessage(exc) ==
    CASE exc = "NoCredentialsError"      -> "Unable to locate AWS credentials"
      [] exc = "ProfileNotFound"         -> "List available profiles"
      [] exc = "PartialCredentialsError" -> "Incomplete AWS credentials"
      [] exc = "AuthFailure"             -> "AWS authorization failed"
      [] exc = "UnauthorizedOperation"   -> "AWS authorization failed"
      [] exc = "ExpiredTokenException"   -> "AWS authorization failed"
      [] exc = "ExpiredToken"            -> "AWS authorization failed"
      [] OTHER                           -> exc

\* C17 as claimed: a credential or authorization exception raised anywhere
\* during a command ends the command with the human-readable CLIError, and a
\* ClientError with any other code ends it unchanged
C17_EveryRaiseTranslated ==
    pc = "done" =>
        \A exc \in loc.raised :
            result = [exit |-> "error", err |-> ClaimedMessage(exc)]

\* C17 as amended: a credential or authorization exception that leaves the
\* body of a subcommand (nested ones included) ends the command with the
\* human-readable CLIError, and a ClientError with any other code that
\* leaves the body ends it unchanged; a ClientError that the command handles
\* itself (the volume discovery of terminate returns the empty list) does
\* not end the command and is not reported
C17_EscapedTranslated ==
    /\ loc.escaped # "none" =>
          /\ pc = "done"
          /\ loc.escaped \in loc.raised
          /\ result = [exit |-> "error", err |-> ClaimedMessage(loc.escaped)]
    /\ (loc.raised # {} /\ loc.escaped = "none") =>
          /\ args.cmd = "terminate"
          /\ loc.raised \subseteq ClientErrors
          /\ result.err \notin {ClaimedMessage(e) : e \in AwsExceptions}

\* the nested command quota request has ended with the authorization
\* message after get_service_quota raised ExpiredToken
C17_Witness ==
    /\ pc = "done"
    /\ args.cmd = "quota request"
    /\ loc.escaped = "ExpiredToken"
    /\ result.err = "AWS authorization failed"

\* ---- C18
\* C18: QUOTA_FAMILIES contains the families gvt, p5, p and dl, each mapping
\* both 'spot' and 'on-demand' to a quota code; p and p5 share the
\* on-demand quota code and have different spot quota codes (so the code
\* quota request looks up is the code of one of these families)
C18_QuotaFamilies ==
    /\ args.quota_code # "none" =>
          \E family \in {"gvt", "p5", "p", "dl"} \cap DOMAIN QUOTA_FAMILIES :
              \E quota_type \in QuotaTypes :
                  args.quota_code = QUOTA_FAMILIES[family][quota_type]
    /\ \A family \in DOMAIN QUOTA_FAMILIES :
          {"spot", "on-demand"} \subseteq DOMAIN QUOTA_FAMILIES[family]
    /\ {"gvt", "p5", "p", "dl"} \subseteq DOMAIN QUOTA_FAMILIES
    /\ QUOTA_FAMILIES["p"]["on-demand"] = QUOTA_FAMILIES["p5"]["on-demand"]
    /\ QUOTA_FAMILIES["p"]["spot"] # QUOTA_FAMILIES["p5"]["spot"]

\* ---- C19
\* the attempts of wait_for_ssh that have failed so far
FailedAttempts == IF loc.ret = "True" THEN loc.attempt - 1 ELSE loc.attempt

\* at most retries attempts; True at the first attempt that succeeds and
\* only there; False after exactly retries failed attempts; the same delay
\* slept after each failed attempt
WaitForSshBounded ==
    /\ loc.attempt <= args.retries
    /\ loc.slept = FailedAttempts * args.delay
    /\ loc.ret = "True" => pc = "done" /\ loc.attempt >= 1
    /\ loc.ret = "False" => pc = "done" /\ FailedAttempts = args.retries
    /\ pc = "done" <=> loc.ret # "none"

\* C19: wait_for_ssh is a bounded fixed-interval loop: it always terminates
\* after at most retries attempts (default 30), returns True at the first
\* attempt in which the TCP connection and the ssh command both succeed,
\* returns False after exactly retries failed attempts, and sleeps the same
\* delay after each failed attempt
C19_WaitForSshTerminates ==
    /\ [](args.cmd = "wait_for_ssh" => WaitForSshBounded)
    /\ <>(pc = "done")

\* wait_for_ssh with its defaults has given up after 30 attempts and 300
\* seconds of sleep
C19_Witness ==
    /\ args.cmd = "wait_for_ssh"
    /\ args.retries = DefaultRetries
    /\ args.delay = DefaultDelay
    /\ loc.ret = "False"
    /\ loc.attempt = 30
    /\ loc.slept = 300

\* ---- C20
SetupFailed == \E k \in 1..Len(steps) : steps[k] = [name |-> "setup", res |-> "failed"]
MountFailed == \E k \in 1..Len(steps) : steps[k] = [name |-> "mount", res |-> "failed"]

\* what C20 says apart from the warning: launch goes on to add_ssh_host, and
\* when it has ended it exited with status 0, the alias of the instance is
\* in the SSH config and the instance is running
LaunchNotAborted ==
    /\ pc \in {"l_mount", "l_alias", "done"}
    /\ pc = "done" =>
          /\ result = [exit |-> "ok", err |-> "none"]
          /\ HasCall("add_ssh_host")
          /\ sshConfig[loc.instance_id] # 0
          /\ instances[loc.instance_id].state = "running"

RunCalls == SelectSeq(calls, LAMBDA c : c.op = "run_instances")

\* C21: launch_instance calls run_instances at most twice; a second call is
\* made only after a spot request failed with InsufficientInstanceCapacity or
\* SpotMaxPriceTooLow, it is an on-demand request, and in text mode it is
\* made only after the user confirmed, in the other modes without asking;
\* declining raises 'Launch cancelled' with no second call, and an on-demand
\* request is never retried
C21_SpotRetry ==
    (args.cmd = "launch" /\ loc.run_codes # <<>>) =>
        /\ Len(RunCalls) = Len(loc.run_codes)
        /\ Len(RunCalls) <= 2
        /\ Len(RunCalls) = 2 <=>
              /\ RunCalls[1] = RunCall(TRUE)
              /\ loc.run_codes[1] \in SpotRetryCodes
              /\ is_text(args.fmt) => loc.answer = "yes"
        /\ Len(RunCalls) = 2 =>
              /\ RunCalls[2] = RunCall(FALSE)
              /\ ~is_text(args.fmt) => loc.answer = "none"
        /\ loc.answer = "no" =>
              /\ RunCalls = <<RunCall(TRUE)>>
              /\ pc = "done"
              /\ result = [exit |-> "error", err |-> "Launch cancelled"]
        /\ RunCalls[1] = RunCall(FALSE) => Len(RunCalls) = 1

\* a spot request failed for lack of capacity, the user confirmed and the
\* on-demand retry returned an instance
C21_Witness ==
    /\ args.cmd = "launch"
    /\ RunCalls = <<RunCall(TRUE), RunCall(FALSE)>>
    /\ loc.run_codes = <<"InsufficientInstanceCapacity", "ok">>
    /\ loc.answer = "yes"
    /\ loc.instance_id # NoInst


\* ---- C22
\* C22: whenever ensure_security_group returns a group ID, that group,
\* found or newly created, is in the default VPC and permits inbound TCP on
\* the requested ssh_port
C22_ReturnedGroupPermitsPort ==
    (args.cmd = "ensure_security_group" /\ loc.sg_id # "none") =>
        \E g \in secGroups :
            /\ g.id = loc.sg_id
            /\ g.vpc = DefaultVpc
            /\ args.ssh_port \in g.ports


\* ---- C23
\* C23: the TCP connection probe and the ssh command of wait_for_ssh both
\* target the port given by --ssh-port, and port 22 only when --ssh-port is
\* left at its default
C23_WaitsOnSshPort ==
    args.cmd = "wait_for_ssh" =>
        /\ loc.probe_ports \subseteq {args.ssh_port}
        /\ loc.ssh_cmd_ports \subseteq {args.ssh_port}


\* ---- C24
\* wait_instance_ready returned an instance without a public IP
NoPublicIp ==
    /\ \E k \in 1..Len(steps) : steps[k] = [name |-> "wait_ready", res |-> "ok"]
    /\ ~loc.public_ip

\* wait_for_ssh returned False
SshTimedOut ==
    \E k \in 1..Len(steps) : steps[k] = [name |-> "wait_ssh", res |-> "failed"]

\* C24: if the launched instance has no public IP, or SSH does not become
\* available within the retry limit, launch stops there: no remote setup, no
\* mount and no SSH config alias, the instance is left running and a data
\* volume already created or attached stays attached; nothing is
\* terminated, detached or deleted
C24_StopsAndLeavesInPlace ==
    (args.cmd = "launch" /\ (NoPublicIp \/ SshTimedOut)) =>
        /\ pc = "done"
        /\ result = [exit |-> "ok", err |-> "none"]
        /\ \A k \in 1..Len(steps) : steps[k].name \notin {"setup", "mount", "alias"}
        /\ \A k \in 1..Len(calls) :
              calls[k].op \notin {"run_remote_setup", "mount_ebs_volume", "add_ssh_host",
                                  "terminate_instances", "detach_volume", "delete_volume"}
        /\ sshConfig = start.sshConfig
        /\ instances[loc.instance_id].state = "running"
        /\ \A i \in InstIds \ {loc.instance_id} : instances[i] = start.instances[i]
        /\ \A v \in VolIds :
              IF v = loc.ebs_volume_attached
              THEN /\ volumes[v].state = "in-use"
                   /\ volumes[v].attached = loc.instance_id
              ELSE volumes[v] = start.volumes[v]
        /\ NoPublicIp => loc.ebs_volume_attached = NoVol

\* SSH never came up on an instance to which launch had attached a new
\* data volume
C24_Witness ==
    /\ args.cmd = "launch"
    /\ pc = "done"
    /\ SshTimedOut
    /\ loc.ebs_volume_attached # NoVol
    /\ args.ebs_storage = 96
    /\ volumes[loc.ebs_volume_attached].attached = loc.instance_id


\* ---- C25
\* the volumes for which the waiter or delete_volume raised in this run
FailedVols ==
    {v \in VolIds : WaitCall(v, FALSE) \in Range(calls) \/ DeleteCall(v, FALSE) \in Range(calls)}

\* the volumes that delete_volume deleted in this run
DeletedVols == {v \in VolIds : DeleteCall(v, TRUE) \in Range(calls)}

\* the failure of a volume is contained: the loop goes on, every discovered
\* volume gets its round, terminate ends with exit status 0, and
\* ebs_volumes_deleted holds exactly the volumes whose deletion succeeded
FailureContained ==
    /\ pc \in {"t_vol", "t_out", "done"}
    /\ loc.deleted = {p \in Range(loc.ebs) : p[2] \in DeletedVols}
    /\ pc \in {"t_out", "done"} =>
          \A k \in 1..Len(loc.ebs) :
              \E ok \in BOOLEAN : WaitCall(loc.ebs[k][2], ok) \in Range(calls)
    /\ pc = "done" =>
          /\ result = [exit |-> "ok", err |-> "none"]
          /\ ~is_text(args.fmt) => out.emits = 1

\* C25 as the claim states it: when waiting for or deleting a data volume
\* fails during terminate, a warning is issued, the remaining volumes are
\* still processed, the command completes normally and the structured
\* result lists under ebs_volumes_deleted exactly the volumes deleted
C25_WarningAlwaysIssued ==
    (args.cmd = "terminate" /\ FailedVols # {}) =>
        /\ "delete_failed" \in out.warnings
        /\ FailureContained

\* C25, amended: the same, but the warning is issued in text mode only; in
\* the structured output modes, the ones with a structured result, nothing
\* is printed about the failure
C25_FailureContained ==
    (args.cmd = "terminate" /\ FailedVols # {}) =>
        /\ "delete_failed" \in out.warnings <=> is_text(args.fmt)
        /\ FailureContained

\* terminate --output json of two instances: the first volume could not be
\* deleted, the second one was
C25_Witness ==
    /\ args.cmd = "terminate"
    /\ args.fmt = "json"
    /\ pc = "done"
    /\ Len(loc.ebs) = 2
    /\ loc.ebs[1][2] \in FailedVols
    /\ loc.deleted = {loc.ebs[2]}


\* ---- C26
\* the position of the first call of op in calls, 0 when there is none
FirstCall(op) ==
    IF HasCall(op)
    THEN CHOOSE k \in 1..Len(calls) :
            calls[k].op = op /\ \A j \in 1..(k - 1) : calls[j].op # op
    ELSE 0

\* C26: every data volume that launch attaches carries, before attach_volume
\* is called, the tags aws-bootstrap-instance = <the instance launched in
\* this run> and created-by, so that find_ebs_volumes_for_instance returns
\* it for that instance
C26_TagsBeforeAttach ==
    (args.cmd = "launch" /\ loc.ebs_volume_attached # NoVol) =>
        LET v == loc.ebs_volume_attached
        IN  /\ loc.instance_id # NoInst
            /\ volumes[v].tagInst = loc.instance_id
            /\ volumes[v].tagCreatedBy
            /\ v \in find_ebs_volumes_for_instance(volumes, loc.instance_id)
            /\ HasCall("attach_volume") =>
                  /\ \A k \in 1..Len(calls) :
                        calls[k].op = "attach_volume" =>
                            calls[k].arg = <<v, loc.instance_id>>
                  /\ \/ /\ HasCall("create_volume")
                        /\ FirstCall("create_volume") < FirstCall("attach_volume")
                     \/ /\ HasCall("create_tags")
                        /\ FirstCall("create_tags") < FirstCall("attach_volume")

\* launch --ebs-volume-id has attached a volume that had been tagged for
\* another instance before
C26_Witness ==
    /\ args.cmd = "launch"
    /\ HasCall("attach_volume")
    /\ loc.ebs_volume_attached = args.ebs_volume_id
    /\ loc.ebs_volume_attached # NoVol
    /\ start.volumes[loc.ebs_volume_attached].tagInst \notin {NoInst, loc.instance_id}
    /\ volumes[loc.ebs_volume_attached].attached = loc.instance_id


\* ---- C27
\* C27: quota request submits an increase request only when the desired
\* value is strictly greater than the current quota value and, in text mode
\* without --yes, only after the user confirmed; when the desired value is
\* not greater (a CLIError) or the user declines, no request is submitted
C27_RequestOnlyWhenGreater ==
    args.cmd = "quota request" =>
        /\ HasCall("request_service_quota_increase") =>
              /\ args.desired > loc.current
              /\ loc.current # 0
              /\ (is_text(args.fmt) /\ ~args.yes) => loc.answer = "yes"
        /\ quotaRequests # start.quotaRequests =>
              HasCall("request_service_quota_increase")
        /\ (loc.current # 0 /\ args.desired <= loc.current) =>
              /\ pc = "done"
              /\ result = [exit |-> "error",
                           err |-> "Desired value must be greater than current value"]
              /\ ~HasCall("request_service_quota_increase")
              /\ quotaRequests = start.quotaRequests
        /\ loc.answer = "no" =>
              /\ pc = "done"
              /\ result.exit = "ok"
              /\ ~HasCall("request_service_quota_increase")
              /\ quotaRequests = start.quotaRequests

\* a request for the value the quota already has was refused
C27_Witness ==
    /\ args.cmd = "quota request"
    /\ pc = "done"
    /\ loc.current # 0
    /\ args.desired = loc.current
    /\ result.exit = "error"


\* ---- C28
\* C28: in json, yaml or table mode every launch run that exits with status
\* 0 has emitted exactly one result document
C28_OneDocument ==
    (args.cmd = "launch" /\ ~is_text(args.fmt) /\ pc = "done" /\ result.exit = "ok") =>
        out.emits = 1


\* ---- C29
\* the data volumes that are leaked when this run starts: tagged by the
\* tool, available, in the region of the run, and their instance terminated
Leaked ==
    {v \in VolIds : /\ start.volumes[v].state = "available"
                    /\ start.volumes[v].tagCreatedBy
                    /\ start.volumes[v].tagInst \in InstIds
                    /\ start.instances[start.volumes[v].tagInst].state = "terminated"
                    /\ RegionOf(start.volumes[v].az) = args.region}

\* a cleanup --include-ebs --yes run that has ended
CleanupEbsDone ==
    /\ args.cmd = "cleanup"
    /\ args.include_ebs /\ args.yes /\ ~args.dry_run
    /\ pc = "done"

BothEnded == \A p \in Procs : pc[p] = "done"

\* exactly one key pair and one security group of the tool's names exist
OneOfEach ==
    /\ keyPairs = {KeyName}
    /\ Cardinality(existing_groups(secGroups, GroupName)) = 1

\* C30 as the claim states it: under every interleaving of two concurrent
\* launch runs both get past the key-import and security-group steps
\* without an error, and afterwards exactly one key pair and one security
\* group exist
C30_BothRunsPass ==
    /\ \A p \in Procs : result[p].exit # "error"
    /\ BothEnded => OneOfEach

\* C30, amended: afterwards exactly one key pair and one security group
\* exist, and at least one run gets past both steps; a run fails only when
\* it looked for the key pair (the group) before the other run created it
\* and called import_key_pair (create_security_group) after, with the
\* Duplicate error of that call; a run that found the resource never fails
C30_OneOfEachLoserFails ==
    /\ Cardinality(keyPairs) <= 1
    /\ Cardinality(existing_groups(secGroups, GroupName)) <= 1
    /\ BothEnded =>
          /\ OneOfEach
          /\ \E p \in Procs : result[p] = [exit |-> "ok", err |-> "none"]
    /\ \A p \in Procs :
          /\ result[p].exit = "error" =>
                /\ \E q \in Procs \ {p} : result[q].exit # "error"
                /\ \/ /\ result[p].err = "InvalidKeyPair.Duplicate"
                      /\ loc[p].key_found = "no"
                      /\ KeyName \in keyPairs
                   \/ /\ result[p].err = "InvalidGroup.Duplicate"
                      /\ loc[p].sg_found = "no"
                      /\ existing_groups(secGroups, GroupName) # {}
          /\ loc[p].key_found = "yes" =>
                \A k \in 1..Len(calls[p]) : calls[p][k].op # "import_key_pair"
          /\ loc[p].sg_found = "yes" => result[p].exit = "ok"

\* both runs saw that there was no security group; one created it, the
\* other one's create_security_group failed
C30_Witness ==
    /\ BothEnded
    /\ \E p \in Procs, q \in Procs :
          /\ result[p] = [exit |-> "ok", err |-> "none"]
          /\ result[q] = [exit |-> "error", err |-> "InvalidGroup.Duplicate"]
          /\ loc[q].sg_found = "no"

====
